---- MODULE Spec2Model ----
(***************************************************************************)
(* Verification model of simrng: the chi-squared evaluation pipeline       *)
(* (stats/mod.rs), the distribution descriptors (dist/), the linear        *)
(* congruential generator (rng/mod.rs), pagination (list/mod.rs) and the   *)
(* request handlers that share the retained (sample set, distribution)     *)
(* slot behind a tokio RwLock (controllers.rs).                            *)
(*                                                                         *)
(* f64 values are modelled as exact rationals [k, n, d] plus the IEEE      *)
(* specials NaN and +/-infinity; rounding of finite results is not         *)
(* modelled.  usize/u64 arithmetic that can leave its range is modelled    *)
(* with both outcomes a build can produce: a panic when overflow checks    *)
(* are compiled in (debug profile) and wrap-around when they are not       *)
(* (release profile).                                                      *)
(***************************************************************************)
EXTENDS Integers, Sequences, FiniteSets, TLC

(***************************************************************************)
(* Bounds of the model                                                     *)
(***************************************************************************)
\* longest interval sequence handed to merge_intervals
MaxBins == 4
\* width in bits of usize/u64 in the model (64 in the program)
WordBits == 20
\* longest retained sample handed to full_statistics
MaxSample == 3
\* largest interval count of a statistics request
MaxIntervals == 3
\* largest std::thread::available_parallelism()
MaxThreads == 5
\* longest sample handed to get_page
MaxPageLen == 65
\* largest degrees of freedom handed to chi_squared_critical_value, besides
\* the largest u64
MaxDf == 102
\* most calls of next() on one generator
MaxDraws == 3
\* largest interval count handed to Uniform::get_expected called on its own
MaxParts == 5
\* calls of Normal::next made on one descriptor
MaxCalls == 4

(***************************************************************************)
(* f64 arithmetic                                                          *)
(***************************************************************************)
Abs(a) == IF a < 0 THEN -a ELSE a

RECURSIVE Gcd(_, _)
Gcd(a, b) == IF b = 0 THEN a ELSE Gcd(b, a % b)

NaN == [k |-> "nan", n |-> 0, d |-> 1]
PosInf == [k |-> "inf", n |-> 1, d |-> 1]
NegInf == [k |-> "inf", n |-> -1, d |-> 1]

\* the finite value n/d (d # 0), in lowest terms with a positive denominator
Fin(n, d) ==
    LET g == Gcd(Abs(n), Abs(d))
        s == IF d < 0 THEN -1 ELSE 1
    IN  [k |-> "fin", n |-> s * (n \div g), d |-> s * (d \div g)]

FInt(i) == [k |-> "fin", n |-> i, d |-> 1]

IsNaN(x) == x.k = "nan"
IsFin(x) == x.k = "fin"
FSign(x) == IF x.n < 0 THEN -1 ELSE IF x.n > 0 THEN 1 ELSE 0

FNeg(x) == IF IsNaN(x) THEN NaN ELSE [x EXCEPT !.n = -x.n]

FAdd(x, y) ==
    IF IsNaN(x) \/ IsNaN(y) THEN NaN
    ELSE IF x.k = "inf" /\ y.k = "inf" THEN (IF x.n = y.n THEN x ELSE NaN)
    ELSE IF x.k = "inf" THEN x
    ELSE IF y.k = "inf" THEN y
    ELSE Fin(x.n * y.d + y.n * x.d, x.d * y.d)

FSub(x, y) == FAdd(x, FNeg(y))

FMul(x, y) ==
    IF IsNaN(x) \/ IsNaN(y) THEN NaN
    ELSE IF x.k = "inf" \/ y.k = "inf"
         THEN (IF FSign(x) * FSign(y) = 0 THEN NaN
               ELSE IF FSign(x) * FSign(y) > 0 THEN PosInf ELSE NegInf)
    ELSE Fin(x.n * y.n, x.d * y.d)

\* IEEE division; a zero divisor is taken as +0.0
FDiv(x, y) ==
    IF IsNaN(x) \/ IsNaN(y) THEN NaN
    ELSE IF x.k = "inf" /\ y.k = "inf" THEN NaN
    ELSE IF x.k = "inf" THEN (IF FSign(x) * FSign(y) < 0 THEN NegInf ELSE PosInf)
    ELSE IF y.k = "inf" THEN FInt(0)
    ELSE IF y.n = 0
         THEN (IF x.n = 0 THEN NaN ELSE IF x.n > 0 THEN PosInf ELSE NegInf)
    ELSE Fin(x.n * y.d, x.d * y.n)

\* comparisons: every comparison with NaN is false
FLt(x, y) ==
    /\ ~IsNaN(x) /\ ~IsNaN(y)
    /\ IF x.k = "inf" /\ y.k = "inf" THEN x.n < y.n
       ELSE IF x.k = "inf" THEN x.n < 0
       ELSE IF y.k = "inf" THEN y.n > 0
       ELSE x.n * y.d < y.n * x.d
FEq(x, y) == ~IsNaN(x) /\ ~IsNaN(y) /\ x = y
FLe(x, y) == FLt(x, y) \/ FEq(x, y)
FGe(x, y) == FLe(y, x)
FGt(x, y) == FLt(y, x)

\* f64::min / f64::max: a NaN operand is ignored
FMin(x, y) == IF IsNaN(x) THEN y ELSE IF IsNaN(y) THEN x ELSE IF FLt(y, x) THEN y ELSE x
FMax(x, y) == IF IsNaN(x) THEN y ELSE IF IsNaN(y) THEN x ELSE IF FLt(x, y) THEN y ELSE x

\* floor of n/d for d > 0 (\div rounds towards minus infinity)
FFloor(x) == IF IsFin(x) THEN FInt(x.n \div x.d) ELSE x
FCeil(x) == IF IsFin(x) THEN FInt(-((-x.n) \div x.d)) ELSE x

\* `f64 as usize`: truncation towards zero, saturating, NaN gives 0
FAsUsize(x, max) ==
    IF IsNaN(x) THEN 0
    ELSE IF x.k = "inf" THEN (IF x.n > 0 THEN max ELSE 0)
    ELSE IF x.n < 0 THEN 0
    ELSE IF x.n \div x.d > max THEN max ELSE x.n \div x.d

(***************************************************************************)
(* usize / u64 arithmetic.  oc is the build's overflow-checks setting: a   *)
(* result outside the range panics when it is on and wraps when it is off. *)
(***************************************************************************)
USIZE == 2 ^ WordBits
UsizeMax == USIZE - 1
IsizeMax == (USIZE \div 2) - 1

Ok(v) == [ok |-> TRUE, v |-> v]
Panic == [ok |-> FALSE, v |-> 0]

usize_sub(a, b, oc) ==
    IF a >= b THEN Ok(a - b) ELSE IF oc THEN Panic ELSE Ok(a - b + USIZE)
usize_add(a, b, oc) ==
    IF a + b <= UsizeMax THEN Ok(a + b) ELSE IF oc THEN Panic ELSE Ok((a + b) % USIZE)
usize_mul(a, b, oc) ==
    IF a = 0 \/ b <= UsizeMax \div a THEN Ok(a * b)
    ELSE IF oc THEN Panic ELSE Ok((a * b) % USIZE)

Min(a, b) == IF a < b THEN a ELSE b

(***************************************************************************)
(* State                                                                   *)
(***************************************************************************)
VARIABLES
    \* merge_intervals (stats/mod.rs): the argument, the position of the
    \* for loop, the two locals and the returned vector
    intervals, mi_next, merged_intervals, pending, mi_result, mi_pc,
    \* the machine and the build: std::thread::available_parallelism() and
    \* whether integer overflow checks are compiled in
    threads, overflow_checks,
    \* full_statistics (stats/mod.rs): the arguments input.intervals, nums
    \* and dist, the position in the function, the locals lower, upper,
    \* size, slice_size and threads - 2, the spawned tasks (start, end,
    \* state, returned vector), the number of tasks awaited so far, the
    \* merged intervals and degrees of freedom handed to the critical value
    \* lookup, the response and the place of a panic
    input_intervals, nums, dist, fs_pc, fs_lower, fs_upper, fs_size,
    fs_slice_size, fs_ntasks, fs_tasks, fs_awaited, fs_merged, fs_df,
    fs_response, fs_panic,
    \* get_page (list/mod.rs): the arguments nums and pagenum, the returned
    \* vector and the position in the function
    pg_nums, pg_pagenum, pg_result, pg_pc,
    \* controllers.rs: the retained Generated (data, dist) behind the RwLock,
    \* the lock (holder of write access, holders of read access, requests
    \* waiting in order of arrival), and per request its position and body
    last_data, last_dist, rw_writer, rw_readers, rw_queue, req_pc, req_in,
    \* history: what each evaluation request read from the slot, the pairs
    \* stored by line 119, the pair each generation request stored, the
    \* order in which generation requests got write access, the requests
    \* that had to wait for the lock
    obs, written, gen_result, lock_order, waited,
    \* chi_squared_critical_value (stats/mod.rs) called on its own: the
    \* arguments df and alpha, the indices read, the f32 read from the table
    \* as <<n, e>> (the value n / 2^e) and the position in the function
    cv_df, cv_alpha, cv_index, cv_result, cv_pc,
    \* LinearCongruentialGenerator (rng/mod.rs): the fields x0, m, a and c,
    \* the x0 it was constructed with, the values next() has returned and
    \* whether a call has panicked
    lcg_x0, lcg_m, lcg_a, lcg_c, lcg_seed, lcg_draws, lcg_pc,
    \* Uniform::get_expected (dist/uniform.rs) called on its own: self, the
    \* arguments intervals, lower and upper, the locals size, interval and
    \* interval_list, and the position in the function
    ge_self, ge_intervals, ge_lower, ge_upper, ge_size, ge_interval,
    ge_interval_list, ge_pc,
    \* Normal::next (dist/normal.rs) called on its own: self, the random
    \* source (the number of draws taken from it), the number of calls made,
    \* and for the last call and the one before it what the call was given,
    \* drew, returned and left
    nm_self, nm_rand, nm_calls, nm_last, nm_prev,
    \* Poisson::get_expected (dist/poisson.rs) called on its own: self, the
    \* arguments intervals and lower, the locals interval and interval_list
    \* (each mass as its quotient by exp(-lambda)), the value factorial()
    \* returned in each iteration, and the position in the function
    pe_self, pe_intervals, pe_lower, pe_interval, pe_interval_list,
    pe_divisors, pe_pc

mergeVars == <<intervals, mi_next, merged_intervals, pending, mi_result, mi_pc>>
envVars == <<threads, overflow_checks>>
statArgs == <<input_intervals, nums, dist>>
statLocals == <<fs_lower, fs_upper, fs_size, fs_slice_size, fs_ntasks>>
statOut == <<fs_merged, fs_df, fs_response, fs_panic>>
statVars == <<statArgs, fs_pc, statLocals, fs_tasks, fs_awaited, statOut>>
pageVars == <<pg_nums, pg_pagenum, pg_result, pg_pc>>
lockVars == <<rw_writer, rw_readers, rw_queue>>
histVars == <<obs, written, gen_result, lock_order, waited>>
slotVars == <<last_data, last_dist, lockVars, req_pc, req_in, histVars>>
critVars == <<cv_df, cv_alpha, cv_index, cv_result, cv_pc>>
rngVars == <<lcg_x0, lcg_m, lcg_a, lcg_c, lcg_seed, lcg_draws, lcg_pc>>
expVars == <<ge_self, ge_intervals, ge_lower, ge_upper, ge_size, ge_interval,
             ge_interval_list, ge_pc>>
normVars == <<nm_self, nm_rand, nm_calls, nm_last, nm_prev>>
poisVars == <<pe_self, pe_intervals, pe_lower, pe_interval, pe_interval_list,
              pe_divisors, pe_pc>>
unitVars == <<normVars, poisVars>>
callVars == <<critVars, rngVars, expVars, unitVars>>
vars == <<mergeVars, envVars, statVars, pageVars, slotVars, callVars>>

(***************************************************************************)
(* stats/mod.rs: ChiInterval and merge_intervals                           *)
(***************************************************************************)
ChiInterval(lower, upper, fo, fe) ==
    [lower |-> lower, upper |-> upper, fo |-> fo, fe |-> fe]

\* a merge whose bounds are taken the wrong way round
merge_swapped(self, other) ==
    [self EXCEPT !.lower = FMax(self.lower, other.lower),
                 !.upper = FMin(self.upper, other.upper),
                 !.fo = self.fo + other.fo,
                 !.fe = FAdd(self.fe, other.fe)]

\* ChiInterval::merge: self after absorbing other
merge(self, other) ==
    [self EXCEPT !.lower = FMin(self.lower, other.lower),
                 !.upper = FMax(self.upper, other.upper),
                 !.fo = self.fo + other.fo,
                 !.fe = FAdd(self.fe, other.fe)]

\* the minimum expected frequency of an interval of the test (5f64)
Threshold == FInt(5)

\* body of the for loop of merge_intervals on one interval; pending is an
\* Option, modelled as a sequence of length 0 or 1
merge_loop_body(st, interval0) ==
    LET interval == IF st.pending # <<>> THEN merge(interval0, st.pending[1])
                    ELSE interval0
    IN  IF FGe(interval.fe, Threshold)
        THEN [merged_intervals |-> Append(st.merged_intervals, interval),
              pending |-> <<>>]
        ELSE [merged_intervals |-> st.merged_intervals,
              pending |-> <<interval>>]

\* a tail that always emits the pending interval as an interval of its own
merge_tail_push(st) ==
    IF st.pending # <<>> THEN Append(st.merged_intervals, st.pending[1])
    ELSE st.merged_intervals

\* a tail that drops the pending interval when something was emitted
merge_tail_discard(st) ==
    IF st.pending # <<>> /\ st.merged_intervals = <<>> THEN <<st.pending[1]>>
    ELSE st.merged_intervals

\* the code after the loop: what is left pending joins the last emitted
\* interval, or is emitted alone when nothing was emitted
merge_tail(st) ==
    IF st.pending # <<>>
    THEN IF st.merged_intervals # <<>>
         THEN LET l == Len(st.merged_intervals)
              IN  [st.merged_intervals EXCEPT
                      ![l] = merge(st.merged_intervals[l], st.pending[1])]
         ELSE <<st.pending[1]>>
    ELSE st.merged_intervals

RECURSIVE merge_sweep(_, _)
merge_sweep(st, ivs) ==
    IF ivs = <<>> THEN st
    ELSE merge_sweep(merge_loop_body(st, Head(ivs)), Tail(ivs))

\* merge_intervals as a function of its argument
merge_intervals(ivs) ==
    merge_tail(merge_sweep([merged_intervals |-> <<>>, pending |-> <<>>], ivs))

(***************************************************************************)
(* dist/: the distribution descriptors and the Distribution trait          *)
(***************************************************************************)
Uniform(lower, upper) == [kind |-> "Uniform", lower |-> lower, upper |-> upper]
Normal(algorithm, mean, sd, pair) ==
    [kind |-> "Normal", algorithm |-> algorithm, mean |-> mean, sd |-> sd,
     pair |-> pair]
Exponential(lambda) == [kind |-> "Exponential", lambda |-> lambda]
Poisson(lambda) == [kind |-> "Poisson", lambda |-> lambda]

\* Uniform::get_expected: the part of the bin starting at interval taken
\* as lying inside [self.lower, self.upper]
inside_interval(self, interval, size) ==
    IF FGe(interval, self.lower) /\ FLe(FAdd(interval, size), self.upper) THEN size
    ELSE IF FLt(FAdd(interval, size), self.lower) THEN FInt(0)
    ELSE IF FGe(interval, self.upper) THEN FInt(0)
    ELSE IF FLt(interval, self.lower) THEN FSub(size, FSub(self.lower, interval))
    ELSE FSub(self.upper, interval)

\* line 33: the mass pushed for the bin starting at interval
uniform_mass(self, interval, size) ==
    FMul(FDiv(FInt(1), FSub(self.upper, self.lower)),
         inside_interval(self, interval, size))

RECURSIVE uniform_get_expected(_, _, _, _)
uniform_get_expected(self, n, interval, size) ==
    IF n = 0 THEN <<>>
    ELSE <<uniform_mass(self, interval, size)>>
         \o uniform_get_expected(self, n - 1, FAdd(interval, size), size)

\* masses that stand for the values of the formulas with exp(): the density
\* of the midpoint times the bin width (Normal), a difference of the
\* distribution function (Exponential), e^-l l^n / factorial(n) (Poisson)
MassValues == {FInt(0), Fin(1, 2), FInt(2)}

\* Distribution::get_expected: the set of vectors the call can return.
\* Uniform is computed exactly; the three other variants return one mass
\* per interval, a non-negative number that is not rational in general.
get_expected(self, intervals_n, lower, upper) ==
    IF self.kind = "Uniform"
    THEN {uniform_get_expected(self, intervals_n, lower,
                               FDiv(FSub(upper, lower), FInt(intervals_n)))}
    ELSE [1..intervals_n -> MassValues]

\* Distribution::get_degrees of the four variants
get_degrees(self, intervals_n, oc) ==
    CASE self.kind = "Uniform" -> usize_sub(intervals_n, 1, oc)
      [] self.kind = "Normal" ->
            (IF intervals_n >= 4 THEN Ok(intervals_n - 3) ELSE Ok(1))
      [] self.kind = "Exponential" ->
            (IF intervals_n >= 3 THEN Ok(intervals_n - 2) ELSE Ok(1))
      [] self.kind = "Poisson" ->
            (IF intervals_n >= 3 THEN Ok(intervals_n - 2) ELSE Ok(1))

\* f64::trunc
FTrunc(x) == IF IsFin(x) /\ x.n < 0 THEN FCeil(x) ELSE FFloor(x)

DistributionLimits(lower, upper, intervals_n) ==
    [lower |-> lower, upper |-> upper, intervals |-> intervals_n]

\* Distribution::get_intervals of the four variants: the partition each
\* descriptor makes of the one it is given
get_intervals(self, limits) ==
    CASE self.kind = "Uniform" ->
            DistributionLimits(self.lower, self.upper, limits.intervals)
      [] self.kind = "Poisson" ->
            LET lower == FTrunc(limits.lower)
                upper == FAdd(FTrunc(limits.upper), FInt(1))
            IN  DistributionLimits(lower, upper,
                                   FAsUsize(FSub(upper, lower), UsizeMax))
      [] self.kind = "Normal" -> limits
      [] self.kind = "Exponential" -> limits

(***************************************************************************)
(* stats/mod.rs: chi_squared_critical_value                                *)
(***************************************************************************)
\* the table of chi_squared_critical_value, [[f32; 100]; 10]: row = index of
\* the significance level, column = degrees of freedom.  An entry <<n, e>>
\* is the f32 nearest to the literal of the source, n / 2^e.
list ==
  <<
    <<
        <<0,0>>, <<8589935,32>>, <<6442451,28>>, <<12213813,27>>,
        <<14092861,26>>, <<12784239,25>>, <<10032775,24>>, <<7189037,23>>,
        <<2415919,21>>, <<12406751,23>>, <<7692773,22>>, <<2321757,20>>,
        <<1372219,19>>, <<3189139,20>>, <<7305429,21>>, <<16536463,22>>,
        <<9262491,21>>, <<643013,17>>, <<2835297,19>>, <<12417237,21>>,
        <<13520549,21>>, <<457651,16>>, <<15790087,21>>, <<2119539,18>>,
        <<4534829,19>>, <<9670597,20>>, <<10279925,20>>, <<681037,16>>,
        <<1440075,17>>, <<12150899,20>>, <<6394269,19>>, <<13433517,20>>,
        <<14083739,20>>, <<3685063,18>>, <<15402009,20>>, <<1004313,16>>,
        <<8370625,19>>, <<8709367,19>>, <<9050731,19>>, <<1174143,16>>,
        <<4869351,18>>, <<5043441,18>>, <<5218317,18>>, <<1348495,16>>,
        <<5570953,18>>, <<5748713,18>>, <<11854519,19>>, <<3053427,17>>,
        <<12574471,19>>, <<6468141,18>>, <<6650095,18>>, <<1708209,16>>,
        <<7016363,18>>, <<1800169,16>>, <<3692757,17>>, <<3785569,17>>,
        <<15515097,19>>, <<15888967,19>>, <<8131943,18>>, <<16639853,19>>,
        <<4254479,17>>, <<2174563,16>>, <<8888333,18>>, <<4539469,17>>,
        <<9270067,18>>, <<9461721,18>>, <<4826949,17>>, <<1230825,15>>,
        <<10039827,18>>, <<10233053,18>>, <<162927,12>>, <<10621865,18>>,
        <<10817189,18>>, <<5506387,17>>, <<5604311,17>>, <<1425657,15>>,
        <<11602153,18>>, <<11799311,18>>, <<5998497,17>>, <<12194939,18>>,
        <<193647,12>>, <<6296201,17>>, <<12791657,18>>, <<12991175,18>>,
        <<13191217,18>>, <<1673973,15>>, <<6796175,17>>, <<13793441,18>>,
        <<874691,14>>, <<1774551,15>>, <<3599637,16>>, <<14600949,18>>,
        <<14803875,18>>, <<937925,14>>, <<7605125,17>>, <<7706981,17>>,
        <<15617937,18>>, <<15822173,18>>, <<8013467,17>>, <<2028929,15>>
    >>,
    <<
        <<0,0>>, <<5368709,28>>, <<15435039,27>>, <<4982833,24>>,
        <<4647289,23>>, <<3657433,22>>, <<10393485,23>>, <<13807649,23>>,
        <<8757707,22>>, <<5364515,21>>, <<6402605,21>>, <<3744465,20>>,
        <<8613003,21>>, <<1221591,18>>, <<1370751,18>>, <<12188647,21>>,
        <<6719275,20>>, <<14711521,21>>, <<16007561,21>>, <<4330619,19>>,
        <<9329181,20>>, <<1250689,17>>, <<10691281,20>>, <<11383341,20>>,
        <<6041895,19>>, <<6395265,19>>, <<6752305,19>>, <<14223933,20>>,
        <<14948499,20>>, <<15679357,20>>, <<16415457,20>>, <<268075,14>>,
        <<8951693,19>>, <<9326559,19>>, <<9704047,19>>, <<10083631,19>>,
        <<2616197,17>>, <<10848043,19>>, <<11233395,19>>, <<11620319,19>>,
        <<12009341,19>>, <<12399411,19>>, <<12791579,19>>, <<13184795,19>>,
        <<13579583,19>>, <<13975945,19>>, <<1796735,16>>, <<14772863,19>>,
        <<15173419,19>>, <<973439,15>>, <<15977677,19>>, <<16381903,19>>,
        <<8393327,18>>, <<1074561,15>>, <<4400087,17>>, <<4502323,17>>,
        <<9209381,18>>, <<9414377,18>>, <<9620161,18>>, <<2456617,16>>,
        <<10033037,18>>, <<10240131,18>>, <<10447749,18>>, <<10655891,18>>,
        <<1358037,15>>, <<11072963,18>>, <<11282153,18>>, <<11491869,18>>,
        <<5850923,17>>, <<2978087,16>>, <<12123111,18>>, <<12334137,18>>,
        <<1568211,15>>, <<3189375,16>>, <<6484787,17>>, <<13182173,18>>,
        <<3348693,16>>, <<13607895,18>>, <<6910771,17>>, <<7017595,17>>,
        <<14249361,18>>, <<14463533,18>>, <<14678229,18>>, <<14893187,18>>,
        <<15108407,18>>, <<7661945,17>>, <<7769817,17>>, <<15755641,18>>,
        <<7985955,17>>, <<16188441,18>>, <<8202617,17>>, <<16622289,18>>,
        <<8419803,17>>, <<8528593,17>>, <<8637383,17>>, <<8746435,17>>,
        <<4427743,16>>, <<8964801,17>>, <<9074115,17>>, <<1147945,14>>
    >>,
    <<
        <<8589935,33>>, <<427819,23>>, <<14495515,26>>, <<16240345,25>>,
        <<6970933,23>>, <<2594177,21>>, <<3544187,21>>, <<9143583,22>>,
        <<11324621,22>>, <<13618905,22>>, <<2000683,19>>, <<9235857,21>>,
        <<5252317,20>>, <<11804869,21>>, <<6566183,20>>, <<7243563,20>>,
        <<7931429,20>>, <<8630829,20>>, <<4669833,19>>, <<2514223,18>>,
        <<10782507,20>>, <<5757731,19>>, <<12256805,20>>, <<13003391,20>>,
        <<13757317,20>>, <<7258243,19>>, <<7640449,19>>, <<16051601,20>>,
        <<4206625,18>>, <<1100415,16>>, <<9195487,19>>, <<1198719,16>>,
        <<4993057,18>>, <<649003,15>>, <<674005,15>>, <<11186209,19>>,
        <<11589911,19>>, <<11994661,19>>, <<3100377,17>>, <<12809929,19>>,
        <<6609961,18>>, <<3407741,17>>, <<7021527,18>>, <<7228621,18>>,
        <<14871953,19>>, <<7644119,18>>, <<15705571,19>>, <<16124477,19>>,
        <<4135977,17>>, <<8482193,18>>, <<8693219,18>>, <<8904507,18>>,
        <<284885,13>>, <<583041,14>>, <<9541517,18>>, <<9754903,18>>,
        <<4984275,17>>, <<5091361,17>>, <<10397155,18>>, <<10612113,18>>,
        <<5413667,17>>, <<5521539,17>>, <<11259085,18>>, <<358613,13>>,
        <<11692409,18>>, <<1488683,15>>, <<3031761,16>>, <<12344885,18>>,
        <<12562989,18>>, <<12781617,18>>, <<13000245,18>>, <<6609699,17>>,
        <<3359703,16>>, <<13658489,18>>, <<3469607,16>>, <<14098629,18>>,
        <<3579773,16>>, <<14540079,18>>, <<7380533,17>>, <<3745579,16>>,
        <<3800957,16>>, <<1928233,15>>, <<3911975,16>>, <<7935099,17>>,
        <<8046379,17>>, <<4078895,16>>, <<16538403,18>>, <<8380875,17>>,
        <<2123137,15>>, <<2151121,15>>, <<8716419,17>>, <<4414243,16>>,
        <<1117569,14>>, <<9052881,17>>, <<4582605,16>>, <<9277669,17>>,
        <<2347565,15>>, <<9502851,17>>, <<9615573,17>>, <<4864213,16>>
    >>,
    <<
        <<8589935,31>>, <<6912213,26>>, <<1476395,22>>, <<11928601,24>>,
        <<2401239,21>>, <<6857687,22>>, <<9089057,22>>, <<11463033,22>>,
        <<13946061,22>>, <<8262779,21>>, <<4797235,20>>, <<2739929,19>>,
        <<3089105,19>>, <<6890193,20>>, <<15227421,21>>, <<4174381,19>>,
        <<9093251,20>>, <<9846129,20>>, <<10608443,20>>, <<5689049,19>>,
        <<3038511,18>>, <<12937331,20>>, <<3431727,18>>, <<1815085,17>>,
        <<1915093,17>>, <<8063025,19>>, <<8467775,19>>, <<8875147,19>>,
        <<2321023,17>>, <<4847829,18>>, <<10108797,19>>, <<10523509,19>>,
        <<5470159,18>>, <<11358175,19>>, <<5889065,18>>, <<12199657,19>>,
        <<6311117,18>>, <<13046383,19>>, <<3367895,17>>, <<13898351,19>>,
        <<7163347,18>>, <<14755561,19>>, <<7593001,18>>, <<15616967,19>>,
        <<501547,14>>, <<8241545,18>>, <<8458863,18>>, <<4338221,17>>,
        <<4447273,17>>, <<4556587,17>>, <<4666163,17>>, <<9551741,18>>,
        <<305365,13>>, <<9991881,18>>, <<5106303,17>>, <<10433593,18>>,
        <<10655105,18>>, <<10876879,18>>, <<11098915,18>>, <<11321475,18>>,
        <<11544297,18>>, <<5883691,17>>, <<11990729,18>>, <<1526825,15>>,
        <<12438733,18>>, <<6331433,17>>, <<12887523,18>>, <<13112443,18>>,
        <<13337625,18>>, <<3390767,16>>, <<6894387,17>>, <<14014743,18>>,
        <<14240973,18>>, <<14467465,18>>, <<3673555,16>>, <<3730309,16>>,
        <<15148253,18>>, <<7687897,17>>, <<15603335,18>>, <<7915569,17>>,
        <<4014801,16>>, <<16287531,18>>, <<16516121,18>>, <<8372355,17>>,
        <<8486781,17>>, <<4300669,16>>, <<4358013,16>>, <<4415357,16>>,
        <<8945533,17>>, <<9060483,17>>, <<9175433,17>>, <<4645323,16>>,
        <<9405727,17>>, <<4760535,16>>, <<9636413,17>>, <<609493,13>>,
        <<4933681,16>>, <<1247871,14>>, <<10098573,17>>, <<5107155,16>>
    >>,
    <<
        <<8589935,29>>, <<7079985,25>>, <<4898947,23>>, <<8925479,23>>,
        <<13505659,23>>, <<4622123,21>>, <<11882463,22>>, <<14638121,22>>,
        <<4370465,20>>, <<2550661,19>>, <<5848957,20>>, <<6610223,20>>,
        <<923009,17>>, <<8168407,20>>, <<8962179,20>>, <<2441085,18>>,
        <<10574889,20>>, <<5696389,19>>, <<12216959,20>>, <<13047431,20>>,
        <<6941573,19>>, <<920191,16>>, <<1946157,17>>, <<4104913,18>>,
        <<2159149,17>>, <<2266497,17>>, <<9496953,19>>, <<4964745,18>>,
        <<10364125,19>>, <<10799809,19>>, <<11237589,19>>, <<5838209,18>>,
        <<1514537,16>>, <<6278873,18>>, <<6500385,18>>, <<13444317,19>>,
        <<6944719,18>>, <<14335607,19>>, <<1847853,16>>, <<15231091,19>>,
        <<15679881,19>>, <<2016215,16>>, <<253,3>>, <<532267,14>>,
        <<4371251,17>>, <<8969257,18>>, <<4598137,17>>, <<9423815,18>>,
        <<4825809,17>>, <<9879945,18>>, <<10108273,18>>, <<2584281,16>>,
        <<2641625,16>>, <<2698969,16>>, <<11025777,18>>, <<11255677,18>>,
        <<5743051,17>>, <<2929197,16>>, <<11947737,18>>, <<3044737,16>>,
        <<12410421,18>>, <<12642157,18>>, <<6437077,17>>, <<13106151,18>>,
        <<13338673,18>>, <<13571195,18>>, <<13804241,18>>, <<14037287,18>>,
        <<14270595,18>>, <<14504165,18>>, <<7368999,17>>, <<7485915,17>>,
        <<15205925,18>>, <<7720141,17>>, <<3918725,16>>, <<15909519,18>>,
        <<1009025,14>>, <<2047443,15>>, <<16614687,18>>, <<4212523,16>>,
        <<8542749,17>>, <<8660713,17>>, <<4389339,16>>, <<8896643,17>>,
        <<9014739,17>>, <<4566483,16>>, <<9251193,17>>, <<9369551,17>>,
        <<9487909,17>>, <<4803199,16>>, <<4862509,16>>, <<9843507,17>>,
        <<4981129,16>>, <<5040505,16>>, <<10199761,17>>, <<10318643,17>>,
        <<10437657,17>>, <<5278335,16>>, <<10675683,17>>, <<2698707,15>>
    >>,
    <<
        <<11349787,22>>, <<9657385,21>>, <<13109297,21>>, <<16313745,21>>,
        <<1210581,17>>, <<2790523,18>>, <<6300369,19>>, <<14011073,20>>,
        <<7698645,19>>, <<16763585,20>>, <<9057075,19>>, <<4862509,18>>,
        <<5193597,18>>, <<5521801,18>>, <<2923823,17>>, <<3085697,17>>,
        <<12986089,19>>, <<13625721,19>>, <<14262731,19>>, <<14896071,19>>,
        <<15526789,19>>, <<8077443,18>>, <<8390443,18>>, <<2175533,16>>,
        <<9013035,18>>, <<9322627,18>>, <<9631433,18>>, <<2484863,16>>,
        <<10246423,18>>, <<10552869,18>>, <<10858529,18>>, <<5581701,17>>,
        <<11467489,18>>, <<2942763,16>>, <<6037045,17>>, <<12376343,18>>,
        <<6339035,17>>, <<811221,14>>, <<13280215,18>>, <<6790185,17>>,
        <<13880263,18>>, <<14179369,18>>, <<14478213,18>>, <<14776795,18>>,
        <<15074591,18>>, <<7686193,17>>, <<15669395,18>>, <<15966405,18>>,
        <<16262889,18>>, <<8279425,17>>, <<4213637,16>>, <<535937,13>>,
        <<8722579,17>>, <<8870035,17>>, <<9017229,17>>, <<9164423,17>>,
        <<9311355,17>>, <<2364539,15>>, <<9604825,17>>, <<2437841,15>>,
        <<9897771,17>>, <<10044047,17>>, <<10190193,17>>, <<5168169,16>>,
        <<10482221,17>>, <<10627973,17>>, <<10773725,17>>, <<5459673,16>>,
        <<2766209,15>>, <<11210195,17>>, <<11355423,17>>, <<5750325,16>>,
        <<11645747,17>>, <<11790713,17>>, <<11935547,17>>, <<6040191,16>>,
        <<12225085,17>>, <<12369789,17>>, <<6257115,16>>, <<791167,13>>,
        <<12803113,17>>, <<3236823,15>>, <<13091471,17>>, <<13235651,17>>,
        <<13379699,17>>, <<422613,12>>, <<13667533,17>>, <<13811319,17>>,
        <<13955105,17>>, <<1762345,14>>, <<14242415,17>>, <<7192969,16>>,
        <<14529331,17>>, <<3668181,15>>, <<14816117,17>>, <<7479689,16>>,
        <<15102509,17>>, <<1905705,14>>, <<7694385,16>>, <<7765885,16>>
    >>,
    <<
        <<8055161,21>>, <<6282019,20>>, <<16389243,21>>, <<9948889,20>>,
        <<1450967,17>>, <<13203669,20>>, <<14750319,20>>, <<4065067,18>>,
        <<8870429,19>>, <<2399535,17>>, <<5157683,18>>, <<11023679,19>>,
        <<366379,14>>, <<12417761,19>>, <<13105103,19>>, <<13786677,19>>,
        <<14463533,19>>, <<7567835,18>>, <<15804137,19>>, <<8233943,18>>,
        <<8564507,18>>, <<8892973,18>>, <<9220129,18>>, <<4772987,17>>,
        <<4935123,17>>, <<10193469,18>>, <<5257691,17>>, <<10836247,18>>,
        <<5578031,17>>, <<11474829,18>>, <<2948137,16>>, <<1513685,15>>,
        <<6212813,17>>, <<12740723,18>>, <<13055295,18>>, <<3342205,16>>,
        <<3420455,16>>, <<13994295,18>>, <<7152861,17>>, <<14616625,18>>,
        <<3731751,16>>, <<7618429,17>>, <<3886547,16>>, <<15854731,18>>,
        <<8081375,17>>, <<4117627,16>>, <<8388739,17>>, <<8542093,17>>,
        <<8695185,17>>, <<8848015,17>>, <<9000583,17>>, <<2288255,15>>,
        <<4652597,16>>, <<4728619,16>>, <<9609019,17>>, <<4880335,16>>,
        <<9912189,17>>, <<5031723,16>>, <<2553643,15>>, <<2591359,15>>,
        <<10516169,17>>, <<5333385,16>>, <<10817241,17>>, <<5483725,16>>,
        <<5558829,16>>, <<2816901,15>>, <<2854355,15>>, <<353,2>>,
        <<11716657,17>>, <<11866079,17>>, <<6007685,16>>, <<6082265,16>>,
        <<12313559,17>>, <<12462457,17>>, <<12611355,17>>, <<6379995,16>>,
        <<12908495,17>>, <<13056999,17>>, <<13205373,17>>, <<3338371,15>>,
        <<13501727,17>>, <<13649707,17>>, <<3449389,15>>, <<13945405,17>>,
        <<3523281,15>>, <<14240711,17>>, <<14388167,17>>, <<14535623,17>>,
        <<3670737,15>>, <<14830141,17>>, <<14977335,17>>, <<7562199,16>>,
        <<7635665,16>>, <<7709131,16>>, <<7782531,16>>, <<3927933,15>>,
        <<15858401,17>>, <<4001235,15>>, <<16151347,17>>, <<16297755,17>>
    >>,
    <<
        <<2634023,19>>, <<15472787,21>>, <<1225261,17>>, <<5842141,19>>,
        <<1682047,17>>, <<15150875,20>>, <<262357,14>>, <<4596695,18>>,
        <<9973531,19>>, <<10738991,19>>, <<11492393,19>>, <<12235309,19>>,
        <<3242197,17>>, <<6846939,18>>, <<14411629,19>>, <<15123087,19>>,
        <<15828779,19>>, <<16528703,19>>, <<8611955,18>>, <<2239365,16>>,
        <<9300607,18>>, <<4820959,17>>, <<9981395,18>>, <<2579759,16>>,
        <<10655105,18>>, <<10989863,18>>, <<5661655,17>>, <<728449,14>>,
        <<2996437,16>>, <<12315263,18>>, <<12643729,18>>, <<12970885,18>>,
        <<6648627,17>>, <<13622575,18>>, <<13946847,18>>, <<14270333,18>>,
        <<1824129,15>>, <<14914945,18>>, <<15235809,18>>, <<15556149,18>>,
        <<15875703,18>>, <<8097235,17>>, <<16512451,18>>, <<8414953,17>>,
        <<2143355,15>>, <<8731623,17>>, <<4444717,16>>, <<9046983,17>>,
        <<4602069,16>>, <<4680581,16>>, <<2379481,15>>, <<1209303,14>>,
        <<4915331,16>>, <<4993319,16>>, <<10142351,17>>, <<5148967,16>>,
        <<5226627,16>>, <<10608443,17>>, <<10763239,17>>, <<10918035,17>>,
        <<5536219,16>>, <<11226841,17>>, <<5690491,16>>, <<2883715,15>>,
        <<365269,12>>, <<740139,13>>, <<5997789,16>>, <<12148933,17>>,
        <<6150947,16>>, <<12454855,17>>, <<12607685,17>>, <<3190063,15>>,
        <<12912689,17>>, <<13064995,17>>, <<13217169,17>>, <<13369213,17>>,
        <<13521125,17>>, <<13672907,17>>, <<13824557,17>>, <<3494019,15>>,
        <<14127333,17>>, <<7139295,16>>, <<3607429,15>>, <<14580711,17>>,
        <<14731575,17>>, <<14882439,17>>, <<15033041,17>>, <<1897939,14>>,
        <<7666991,16>>, <<7742161,16>>, <<7817265,16>>, <<493269,12>>,
        <<7967277,16>>, <<4021125,15>>, <<4058579,15>>, <<125,0>>,
        <<16533553,17>>, <<8341553,16>>, <<1052033,13>>, <<4245455,15>>
    >>,
    <<
        <<3478651,19>>, <<9657385,20>>, <<11896095,20>>, <<1740243,17>>,
        <<7909409,19>>, <<4407165,18>>, <<9686221,19>>, <<5266473,18>>,
        <<1419903,16>>, <<1521025,16>>, <<12963021,19>>, <<6872629,18>>,
        <<7258243,18>>, <<15278277,19>>, <<8015839,18>>, <<32,0>>,
        <<8757969,18>>, <<4561961,17>>, <<4743627,17>>, <<4923851,17>>,
        <<5102895,17>>, <<660095,14>>, <<682197,14>>, <<11266949,18>>,
        <<11616649,18>>, <<1495597,15>>, <<12311069,18>>, <<3163947,16>>,
        <<12999197,18>>, <<1667629,15>>, <<6840779,17>>, <<7010517,17>>,
        <<448725,13>>, <<14696055,18>>, <<15031861,18>>, <<15366619,18>>,
        <<15700591,18>>, <<16033251,18>>, <<8182563,17>>, <<8348107,17>>,
        <<4256563,16>>, <<8677753,17>>, <<4420993,16>>, <<9005957,17>>,
        <<2292351,15>>, <<9332457,17>>, <<9495249,17>>, <<4828889,16>>,
        <<9819783,17>>, <<9981657,17>>, <<5071569,16>>, <<2576089,15>>,
        <<5232591,16>>, <<2656469,15>>, <<10786177,17>>, <<1368277,14>>,
        <<2776531,15>>, <<5632819,16>>, <<5712511,16>>, <<2896003,15>>,
        <<1467859,14>>, <<371925,12>>, <<12059935,17>>, <<12218139,17>>,
        <<773505,13>>, <<12533891,17>>, <<793215,13>>, <<6424363,16>>,
        <<3251503,15>>, <<6581453,16>>, <<3329917,15>>, <<13476299,17>>,
        <<13632799,17>>, <<13789037,17>>, <<13945143,17>>, <<14101119,17>>,
        <<14256833,17>>, <<14412415,17>>, <<7283933,16>>, <<14723187,17>>,
        <<14878245,17>>, <<15033303,17>>, <<15188099,17>>, <<15342895,17>>,
        <<15497429,17>>, <<1956479,14>>, <<1975763,14>>, <<3990061,15>>,
        <<8057127,16>>, <<4067033,15>>, <<2052735,14>>, <<16575627,17>>,
        <<16729113,17>>, <<8441233,16>>, <<8517911,16>>, <<8594457,16>>,
        <<8671003,16>>, <<8747483,16>>, <<4411949,15>>, <<1112531,13>>
    >>,
    <<
        <<11353981,20>>, <<7243563,19>>, <<8528069,19>>, <<4841013,18>>,
        <<1344471,16>>, <<2943615,17>>, <<12751733,19>>, <<209,3>>,
        <<14615577,19>>, <<15512633,19>>, <<4097835,17>>, <<8627159,18>>,
        <<2262827,16>>, <<2367357,16>>, <<4941021,17>>, <<2572419,16>>,
        <<5346427,17>>, <<11091837,18>>, <<5743575,17>>, <<11879055,18>>,
        <<12267553,18>>, <<12653167,18>>, <<13035897,18>>, <<3354067,16>>,
        <<13794017,18>>, <<14169407,18>>, <<14542701,18>>, <<1864237,15>>,
        <<15283257,18>>, <<15650783,18>>, <<8008237,17>>, <<1023787,14>>,
        <<16743137,18>>, <<8552055,17>>, <<4365943,16>>, <<4455465,16>>,
        <<4544725,16>>, <<579199,13>>, <<9444393,17>>, <<9620947,17>>,
        <<9796977,17>>, <<4986241,16>>, <<10147463,17>>, <<315,2>>,
        <<10495853,17>>, <<10669261,17>>, <<2710569,15>>, <<5507449,16>>,
        <<5593563,16>>, <<11358831,17>>, <<5765071,16>>, <<2925265,15>>,
        <<370987,12>>, <<12041847,17>>, <<3052929,15>>, <<1547649,14>>,
        <<12550275,17>>, <<1589887,14>>, <<12887523,17>>, <<13055689,17>>,
        <<1652949,14>>, <<6695551,16>>, <<6779175,16>>, <<1715667,14>>,
        <<13892059,17>>, <<14058521,17>>, <<889045,13>>, <<7195263,16>>,
        <<14556201,17>>, <<7360807,16>>, <<14886765,17>>, <<15051653,17>>,
        <<15216411,17>>, <<15380775,17>>, <<971563,13>>, <<15708979,17>>,
        <<15872819,17>>, <<16036397,17>>, <<16199713,17>>, <<16362897,17>>,
        <<16525951,17>>, <<16688611,17>>, <<2106409,14>>, <<8506835,16>>,
        <<8587903,16>>, <<8668905,16>>, <<4374921,15>>, <<4415357,15>>,
        <<4455727,15>>, <<8992063,16>>, <<9072673,16>>, <<9153151,16>>,
        <<2308391,14>>, <<9313911,16>>, <<587137,12>>, <<9474343,16>>,
        <<2388607,14>>, <<9634447,16>>, <<9714401,16>>, <<4897145,15>>
    >>
  >>

\* the entry as the f64 the `as f64` cast gives (exact)
table_entry(row, col) == Fin(list[row][col][1], 2 ^ list[row][col][2])

\* lines 380-381: the indices list[alpha as usize - 1][df as usize - 1] is
\* read at (1-based here), or Panic when an index computation overflows or
\* an index is outside the table
critical_index(df0, alpha, oc) ==
    LET df == Min(df0, 100)
        row == usize_sub(alpha, 1, oc)
        col == usize_sub(df, 1, oc)
    IN  IF ~row.ok \/ ~col.ok THEN Panic
        ELSE IF row.v >= 10 \/ col.v >= 100 THEN Panic
        ELSE Ok([row |-> row.v + 1, col |-> col.v + 1])

\* chi_squared_critical_value(df, alpha): Ok(value) or Panic
chi_squared_critical_value(df0, alpha, oc) ==
    LET i == critical_index(df0, alpha, oc)
    IN  IF ~i.ok THEN Panic ELSE Ok(table_entry(i.v.row, i.v.col))

(***************************************************************************)
(* stats/mod.rs: parse_intervals and the stages of full_statistics         *)
(***************************************************************************)
RECURSIVE sample_min(_)
sample_min(ns) ==
    IF Len(ns) = 1 THEN ns[1] ELSE FMin(ns[1], sample_min(Tail(ns)))

RECURSIVE sample_max(_)
sample_max(ns) ==
    IF Len(ns) = 1 THEN ns[1] ELSE FMax(ns[1], sample_max(Tail(ns)))

\* lines 85-94: floor of the minimum and ceil of the maximum, of 0.0 for an
\* empty sample
lower_bound(ns) == FFloor(IF ns = <<>> THEN FInt(0) ELSE sample_min(ns))
upper_bound(ns) == FCeil(IF ns = <<>> THEN FInt(0) ELSE sample_max(ns))

\* lines 102-112: the intervals and the class marks, interval_min being
\* advanced by size in each iteration
RECURSIVE interval_list(_, _, _)
interval_list(n, interval_min, size) ==
    IF n = 0 THEN <<>>
    ELSE <<[lower |-> interval_min, upper |-> FAdd(interval_min, size)]>>
         \o interval_list(n - 1, FAdd(interval_min, size), size)

RECURSIVE classmark_list(_, _, _)
classmark_list(n, interval_min, size) ==
    IF n = 0 THEN <<>>
    ELSE <<FAdd(interval_min, FDiv(size, FInt(2)))>>
         \o classmark_list(n - 1, FAdd(interval_min, size), size)

Zeros(n) == [i \in 1..n |-> 0]

\* lines 251-255: the loop of parse_intervals over the slice ns
RECURSIVE count_slice(_, _, _, _, _, _)
count_slice(ns, data_list, intervals_n, lower, size, oc) ==
    IF ns = <<>> THEN Ok(data_list)
    ELSE LET ind0 == FAsUsize(FDiv(FSub(Head(ns), lower), size), UsizeMax)
             last == usize_sub(intervals_n, 1, oc)
             ind == Min(ind0, last.v)
         IN  IF ~last.ok THEN Panic
             ELSE IF ind >= Len(data_list) THEN Panic
             ELSE count_slice(Tail(ns), [data_list EXCEPT ![ind + 1] = @ + 1],
                              intervals_n, lower, size, oc)

\* parse_intervals: the counts of nums[start..end], all zero when the range
\* is not inside nums
parse_intervals(ns, intervals_n, lower, size, start, end, oc) ==
    IF start <= end /\ end <= Len(ns)
    THEN count_slice(SubSeq(ns, start + 1, end), Zeros(intervals_n),
                     intervals_n, lower, size, oc)
    ELSE Ok(Zeros(intervals_n))

\* lines 151-155: element-wise sum of the vectors of the tasks
RECURSIVE sum_results(_, _)
sum_results(data_list, tasks) ==
    IF tasks = <<>> THEN data_list
    ELSE sum_results([i \in 1..Len(data_list) |-> data_list[i] + Head(tasks).result[i]],
                     Tail(tasks))

\* lines 158-162: expected masses scaled by the sample length
scale_expected(masses, n) == [i \in 1..Len(masses) |-> FMul(masses[i], FInt(n))]

\* lines 166-180: zip of the three lists
chi_intervals(data_list, exp_list, ivs) ==
    [i \in 1..Min(Len(data_list), Min(Len(exp_list), Len(ivs))) |->
        ChiInterval(ivs[i].lower, ivs[i].upper, data_list[i], exp_list[i])]

\* ChiInterval::set_c: the term (fo - fe)^2 / fe of the interval
set_c(self) ==
    FDiv(FMul(FSub(FInt(self.fo), self.fe), FSub(FInt(self.fo), self.fe)), self.fe)

\* lines 185-188: the running sum of the terms
RECURSIVE calculated_sum(_, _)
calculated_sum(ivs, calculated) ==
    IF ivs = <<>> THEN calculated
    ELSE calculated_sum(Tail(ivs), FAdd(calculated, set_c(Head(ivs))))

\* the index of the significance level full_statistics passes (line 192)
Alpha == 7

(***************************************************************************)
(* rng/mod.rs: LinearCongruentialGenerator                                 *)
(***************************************************************************)
LinearCongruentialGenerator(x0, m, a, c) == [x0 |-> x0, m |-> m, a |-> a, c |-> c]

\* with_seed(x0): in u64 m is 2^32, half the word, a = 1 + 4 * 712300 is
\* about a third of the word long and c = 1013904223 is odd and below m / 4.
\* In a word of WordBits bits the constants keep these proportions, so that
\* a * x + c stays in the word for every x < m and leaves it for large x,
\* as in u64.
with_seed_m == 2 ^ (WordBits \div 2)
with_seed_a == 1 + (4 * 25)
with_seed_c == 241

with_seed(x0) ==
    LinearCongruentialGenerator(x0, with_seed_m, with_seed_a, with_seed_c)

\* Random::next of the generator: Ok of the new x0 and the value returned,
\* or Panic when self.a * self.x0 + self.c leaves the range of u64 in a
\* build with overflow checks (it wraps in a build without)
lcg_next(self, oc) ==
    LET prod == usize_mul(self.a, self.x0, oc)
        sum == usize_add(prod.v, self.c, oc)
    IN  IF ~prod.ok \/ ~sum.ok THEN Panic
        ELSE Ok([x0 |-> sum.v % self.m,
                 ret |-> FDiv(FInt(sum.v % self.m), FInt(self.m))])

(***************************************************************************)
(* list/mod.rs: get_page                                                   *)
(***************************************************************************)
page_size == 30

\* get_page(nums, pagenum): Ok(the page), or Panic when an index computation
\* overflows in a build with overflow checks
get_page(ns, pagenum, oc) ==
    LET prev == usize_sub(pagenum, 1, oc)
        start == usize_mul(page_size, prev.v, oc)
        stop == usize_add(start.v, page_size, oc)
        end == Min(stop.v, Len(ns))
    IN  IF ~prev.ok \/ ~start.ok \/ ~stop.ok THEN Panic
        \* nums.get(start..end) is None unless start <= end <= nums.len()
        ELSE IF start.v <= end /\ end <= Len(ns)
        THEN Ok(SubSeq(ns, start.v + 1, end))
        ELSE Ok(<<>>)

PageIdle ==
    /\ pg_nums = <<>> /\ pg_pagenum = 1 /\ pg_result = <<>> /\ pg_pc = "idle"

\* the call of get_page
GetPage ==
    /\ pg_pc = "start"
    /\ LET r == get_page(pg_nums, pg_pagenum, overflow_checks)
       IN  /\ pg_pc' = IF r.ok THEN "done" ELSE "panicked"
           /\ pg_result' = IF r.ok THEN r.v ELSE <<>>
    /\ UNCHANGED <<pg_nums, pg_pagenum>>
    /\ UNCHANGED <<mergeVars, envVars, callVars, statVars, slotVars>>

(***************************************************************************)
(* full_statistics as steps: the code up to the spawn loop, one iteration  *)
(* of the spawn loop, the run of one spawned task, one await of the join   *)
(* loop, and the code after the join loop                                  *)
(***************************************************************************)
NoResponse ==
    [histogram |-> [x |-> <<>>, y |-> <<>>, lower |-> FInt(0),
                    upper |-> FInt(0), size |-> FInt(0)],
     test |-> [intervals |-> <<>>, calculated |-> FInt(0),
               critical |-> FInt(0)]]

StatIdle ==
    /\ input_intervals = 0 /\ nums = <<>> /\ dist = Uniform(FInt(10), FInt(11))
    /\ fs_pc = "idle"
    /\ fs_lower = FInt(0) /\ fs_upper = FInt(0) /\ fs_size = FInt(0)
    /\ fs_slice_size = 0 /\ fs_ntasks = 0
    /\ fs_tasks = <<>> /\ fs_awaited = 0
    /\ fs_merged = <<>> /\ fs_df = Ok(0)
    /\ fs_response = NoResponse /\ fs_panic = ""

\* the locals of a call that has just been entered
StatEntry ==
    /\ fs_pc = "start"
    /\ fs_lower = FInt(0) /\ fs_upper = FInt(0) /\ fs_size = FInt(0)
    /\ fs_slice_size = 0 /\ fs_ntasks = 0
    /\ fs_tasks = <<>> /\ fs_awaited = 0
    /\ fs_merged = <<>> /\ fs_df = Ok(0)
    /\ fs_response = NoResponse /\ fs_panic = ""

FsPanic(where) ==
    /\ fs_pc' = "panicked"
    /\ fs_panic' = where

\* lines 85-124: bounds, bin width, number of tasks and slice size
FsStart ==
    /\ fs_pc = "start"
    /\ LET lower == lower_bound(nums)
           upper == upper_bound(nums)
           size == FDiv(FSub(upper, lower), FInt(input_intervals))
           ntasks == usize_sub(threads, 2, overflow_checks)
           slice_size == FAsUsize(FCeil(FDiv(FInt(Len(nums)), FInt(ntasks.v))),
                                  UsizeMax)
       IN  /\ fs_lower' = lower
           /\ fs_upper' = upper
           /\ fs_size' = size
           /\ IF ~ntasks.ok
              THEN /\ FsPanic("threads - 2")
                   /\ UNCHANGED <<fs_slice_size, fs_ntasks>>
              \* Vec::with_capacity(threads - 2) of 24-byte elements
              ELSE IF ntasks.v > IsizeMax \div 24
              THEN /\ FsPanic("with_capacity")
                   /\ fs_slice_size' = slice_size
                   /\ fs_ntasks' = ntasks.v
              ELSE /\ fs_slice_size' = slice_size
                   /\ fs_ntasks' = ntasks.v
                   /\ fs_pc' = IF ntasks.v = 0 THEN "await" ELSE "spawn"
                   /\ UNCHANGED fs_panic
    /\ UNCHANGED <<statArgs, fs_tasks, fs_awaited, fs_merged, fs_df, fs_response>>
    /\ UNCHANGED <<mergeVars, envVars, callVars, pageVars, slotVars>>

\* lines 130-142: one iteration of the spawn loop
FsSpawn ==
    /\ fs_pc = "spawn"
    /\ LET i == Len(fs_tasks)
           start == usize_mul(i, fs_slice_size, overflow_checks)
           rest == usize_sub(Len(nums), start.v, overflow_checks)
           end == usize_add(start.v, Min(fs_slice_size, rest.v), overflow_checks)
       IN  IF ~start.ok \/ ~rest.ok \/ ~end.ok
           THEN /\ FsPanic("nums.len() - start")
                /\ UNCHANGED fs_tasks
           ELSE /\ fs_tasks' = Append(fs_tasks,
                                  [start |-> start.v, end |-> end.v,
                                   state |-> "spawned", result |-> <<>>])
                /\ fs_pc' = IF i + 1 = fs_ntasks THEN "await" ELSE "spawn"
                /\ UNCHANGED fs_panic
    /\ UNCHANGED <<statArgs, statLocals, fs_awaited, fs_merged, fs_df, fs_response>>
    /\ UNCHANGED <<mergeVars, envVars, callVars, pageVars, slotVars>>

\* a spawned task runs parse_intervals to its end
FsTask(t) ==
    /\ fs_tasks[t].state = "spawned"
    /\ LET r == parse_intervals(nums, input_intervals, fs_lower, fs_size,
                                fs_tasks[t].start, fs_tasks[t].end,
                                overflow_checks)
       IN  fs_tasks' = [fs_tasks EXCEPT
                           ![t].state = IF r.ok THEN "finished" ELSE "panicked",
                           ![t].result = IF r.ok THEN r.v ELSE <<>>]
    /\ UNCHANGED <<statArgs, fs_pc, statLocals, fs_awaited, statOut>>
    /\ UNCHANGED <<mergeVars, envVars, callVars, pageVars, slotVars>>

\* lines 145-148: task.await.unwrap() of the next task
FsAwait ==
    /\ fs_pc = "await"
    /\ fs_awaited < fs_ntasks
    /\ fs_tasks[fs_awaited + 1].state # "spawned"
    /\ IF fs_tasks[fs_awaited + 1].state = "panicked"
       THEN /\ FsPanic("task.await.unwrap()")
            /\ UNCHANGED fs_awaited
       ELSE /\ fs_awaited' = fs_awaited + 1
            /\ UNCHANGED <<fs_pc, fs_panic>>
    /\ UNCHANGED <<statArgs, statLocals, fs_tasks, fs_merged, fs_df, fs_response>>
    /\ UNCHANGED <<mergeVars, envVars, callVars, pageVars, slotVars>>

\* lines 150-208: reduction, expected frequencies, merge, statistic,
\* critical value and response
FsFinish ==
    /\ fs_pc = "await"
    /\ fs_awaited = fs_ntasks
    /\ \E masses \in get_expected(dist, input_intervals, fs_lower, fs_upper) :
         LET data_list == sum_results(Zeros(input_intervals), fs_tasks)
             exp_list == scale_expected(masses, Len(nums))
             merged == merge_intervals(
                          chi_intervals(data_list, exp_list,
                              interval_list(input_intervals, fs_lower, fs_size)))
             calculated == calculated_sum(merged, FInt(0))
             df == get_degrees(dist, Len(merged), overflow_checks)
             critical == chi_squared_critical_value(df.v, Alpha, overflow_checks)
         IN  /\ fs_merged' = merged
             /\ fs_df' = df
             /\ IF ~df.ok
                THEN /\ FsPanic("get_degrees")
                     /\ UNCHANGED fs_response
                ELSE IF ~critical.ok
                THEN /\ FsPanic("chi_squared_critical_value")
                     /\ UNCHANGED fs_response
                ELSE /\ fs_pc' = "done"
                     /\ fs_response' =
                          [histogram |->
                              [x |-> classmark_list(input_intervals, fs_lower, fs_size),
                               y |-> data_list, lower |-> fs_lower,
                               upper |-> fs_upper, size |-> fs_size],
                           test |-> [intervals |-> merged,
                                     calculated |-> calculated,
                                     critical |-> critical.v]]
                     /\ UNCHANGED fs_panic
    /\ UNCHANGED <<statArgs, statLocals, fs_tasks, fs_awaited>>
    /\ UNCHANGED <<mergeVars, envVars, callVars, pageVars, slotVars>>

(***************************************************************************)
(* controllers.rs: the retained slot, its RwLock and the three handlers    *)
(***************************************************************************)
Gens == {"G1", "G2"}
Evals == {"S", "P"}
Requests == Gens \cup Evals

\* Generated::new(vec![], Uniform {10, 11}): the slot main() starts with
InitialData == <<>>
InitialDist == Uniform(FInt(10), FInt(11))

\* a handler that takes shared access wherever it needs the slot
ModeAllRead(r) == "read"

\* the access each handler asks for: get_unified calls write(), get_statistics
\* and get_page_numbers call read()
Mode(r) == IF r \in Gens THEN "write" ELSE "read"

\* tokio::sync::RwLock: write access excludes every other holder, read
\* access excludes a writer
Compatible(r, writer, readers) ==
    IF Mode(r) = "write" THEN writer = {} /\ readers = {} ELSE writer = {}

Granted(L, r) ==
    IF Mode(r) = "write" THEN [L EXCEPT !.writer = @ \cup {r}]
    ELSE [L EXCEPT !.readers = @ \cup {r}]

\* read().await / write().await: access at once when nobody waits and the
\* holders allow it, else a place at the end of the queue
rw_acquire(L, r) ==
    IF L.queue = <<>> /\ Compatible(r, L.writer, L.readers) THEN Granted(L, r)
    ELSE [L EXCEPT !.queue = Append(@, r)]

\* the waiting requests are served in order of arrival
RECURSIVE rw_grant(_)
rw_grant(L) ==
    IF L.queue # <<>> /\ Compatible(Head(L.queue), L.writer, L.readers)
    THEN rw_grant(Granted([L EXCEPT !.queue = Tail(@)], Head(L.queue)))
    ELSE L

\* drop of the guard
rw_release(L, r) ==
    rw_grant([L EXCEPT !.writer = @ \ {r}, !.readers = @ \ {r}])

LockState == [writer |-> rw_writer, readers |-> rw_readers, queue |-> rw_queue]

SetLock(L) ==
    /\ rw_writer' = L.writer
    /\ rw_readers' = L.readers
    /\ rw_queue' = L.queue

Holds(r) == r \in rw_writer \cup rw_readers

\* serde_json::from_value::<T>(data.data): the descriptor, or an error
\* (the handler unwraps it and panics) when a field of T is missing
from_value(kind, data) ==
    CASE kind = "Uniform" ->
            IF {"lower", "upper"} \subseteq DOMAIN data
            THEN Ok(Uniform(data.lower, data.upper)) ELSE Panic
      [] kind = "Exponential" ->
            IF "lambda" \in DOMAIN data THEN Ok(Exponential(data.lambda)) ELSE Panic
      [] kind = "Poisson" ->
            IF "lambda" \in DOMAIN data THEN Ok(Poisson(data.lambda)) ELSE Panic
      [] kind = "Normal" ->
            IF {"algorithm", "mean", "sd"} \subseteq DOMAIN data
            THEN Ok(Normal(data.algorithm, data.mean, data.sd,
                           IF "pair" \in DOMAIN data THEN data.pair ELSE <<>>))
            ELSE Panic

\* draws of the random source the model distinguishes
Draws == {FInt(0), Fin(1, 2)}

\* f64::exp(-x) is 0.0: the result is below the least positive f64 from
\* x = 746 on
exp_neg_is_zero(x) == x = PosInf \/ (IsFin(x) /\ FGe(x, FInt(746)))

\* the values next() of the distribution can push: a + RND * (b - a) for
\* Uniform; for the variants computed with ln, exp, cos and sqrt two values
\* of their range stand for the result.  Poisson::next leaves its loop
\* when p < a, with p a product of draws, which is never negative, and
\* a = exp(-lambda): when a is 0.0 the call does not return and there is
\* no value.
next_values(d) ==
    CASE d.kind = "Uniform" ->
            {FAdd(d.lower, FMul(u, FSub(d.upper, d.lower))) : u \in Draws}
      [] d.kind = "Exponential" -> {FInt(0), FInt(1)}
      [] d.kind = "Poisson" ->
            (IF exp_neg_is_zero(d.lambda) THEN {} ELSE {FInt(0), FInt(1)})
      [] d.kind = "Normal" -> {d.mean, FAdd(d.mean, d.sd)}

\* Normal::next: the outcomes of one call, each the value returned and the
\* descriptor after the call.  BoxMuller returns a stored pair value and
\* clears it, or generates two values, returns the first and stores the
\* second; Convolution leaves the descriptor as it is.
normal_next(self) ==
    IF self.algorithm = "BoxMuller"
    THEN IF self.pair # <<>>
         THEN {[ret |-> self.pair[1], self |-> [self EXCEPT !.pair = <<>>]]}
         ELSE {[ret |-> n1, self |-> [self EXCEPT !.pair = <<n2>>]] :
                  n1 \in next_values(self), n2 \in next_values(self)}
    ELSE {[ret |-> v, self |-> self] : v \in next_values(self)}

\* distribution.next(&mut rng) of the four variants
dist_next(d) ==
    IF d.kind = "Normal" THEN normal_next(d)
    ELSE {[ret |-> v, self |-> d] : v \in next_values(d)}

\* n iterations of res.push(distribution.next(&mut rng)): the outcomes, each
\* the vector res and the descriptor after the loop
RECURSIVE sample_iter(_, _)
sample_iter(d, n) ==
    IF n = 0 THEN {[res |-> <<>>, dist |-> d]}
    ELSE UNION {{[res |-> Append(o.res, x.ret), dist |-> x.self] :
                    x \in dist_next(o.dist)} : o \in sample_iter(d, n - 1)}

\* a loop that makes one iteration too few
sample_loop_short(d, number) ==
    sample_iter(d, IF number = 0 THEN 0 ELSE number - 1)

\* the loop `for _ in 0..data.number` of lines 91-93, 98-100, 105-107 and
\* 112-114
sample_loop(d, number) == sample_iter(d, number)

SlotIdle ==
    /\ last_data = InitialData /\ last_dist = InitialDist
    /\ rw_writer = {} /\ rw_readers = {} /\ rw_queue = <<>>
    /\ req_pc = [r \in Requests |-> "idle"]
    /\ req_in = [r \in Requests |-> 0]
    /\ obs = [r \in Evals |-> [seen |-> FALSE, after |-> FALSE,
                               data |-> InitialData, dist |-> InitialDist]]
    /\ written = {[data |-> InitialData, dist |-> InitialDist]}
    /\ gen_result = [g \in Gens |-> [data |-> InitialData, dist |-> InitialDist]]
    /\ lock_order = <<>>
    /\ waited = {}

\* a request arrives and asks for the lock (lines 76, 137 and 155)
ReqLock(r) ==
    /\ req_pc[r] = "new"
    /\ req_pc' = [req_pc EXCEPT ![r] = "lock"]
    /\ SetLock(rw_acquire(LockState, r))
    /\ waited' = IF rw_acquire(LockState, r).queue # rw_queue
                 THEN waited \cup {r} ELSE waited
    /\ UNCHANGED <<last_data, last_dist, req_in, obs, written, gen_result, lock_order>>
    /\ UNCHANGED <<mergeVars, envVars, callVars, statVars, pageVars>>

\* get_unified, line 77: the retained sample is replaced by an empty one
GenClear(g) ==
    /\ g \in Gens
    /\ req_pc[g] = "lock"
    /\ Holds(g)
    /\ last_data' = <<>>
    /\ req_pc' = [req_pc EXCEPT ![g] = "cleared"]
    /\ lock_order' = Append(lock_order, g)
    /\ UNCHANGED <<last_dist, lockVars, req_in, obs, written, gen_result, waited>>
    /\ UNCHANGED <<mergeVars, envVars, callVars, statVars, pageVars>>

\* get_unified, lines 78-120: the descriptor is parsed, the samples are
\* generated and the pair is stored; a descriptor that cannot be parsed
\* panics.  Either way the guard is dropped.
GenRun(g) ==
    /\ g \in Gens
    /\ req_pc[g] = "cleared"
    /\ LET d == from_value(req_in[g].distribution, req_in[g].data)
       IN  IF ~d.ok
           THEN /\ req_pc' = [req_pc EXCEPT ![g] = "panicked"]
                /\ UNCHANGED <<last_data, last_dist, written, gen_result>>
           ELSE \E o \in sample_loop(d.v, req_in[g].number) :
                  /\ last_data' = o.res
                  /\ last_dist' = o.dist
                  /\ written' = written \cup {[data |-> o.res, dist |-> o.dist]}
                  /\ gen_result' = [gen_result EXCEPT
                                       ![g] = [data |-> o.res, dist |-> o.dist]]
                  /\ req_pc' = [req_pc EXCEPT ![g] = "done"]
    /\ SetLock(rw_release(LockState, g))
    /\ UNCHANGED <<req_in, obs, lock_order, waited>>
    /\ UNCHANGED <<mergeVars, envVars, callVars, statVars, pageVars>>

Observation ==
    [seen |-> TRUE, after |-> \A g \in Gens : req_pc[g] = "done",
     data |-> last_data, dist |-> last_dist]

\* get_statistics, lines 139-141: full_statistics is called with clones of
\* the retained data and descriptor
StatCall ==
    /\ req_pc["S"] = "lock"
    /\ Holds("S")
    /\ req_pc' = [req_pc EXCEPT !["S"] = "running"]
    /\ obs' = [obs EXCEPT !["S"] = Observation]
    /\ nums' = last_data
    /\ dist' = last_dist
    /\ input_intervals' = req_in["S"]
    /\ fs_pc' = "start"
    /\ UNCHANGED <<statLocals, fs_tasks, fs_awaited, statOut>>
    /\ UNCHANGED <<last_data, last_dist, lockVars, req_in, written, gen_result,
                   lock_order, waited>>
    /\ UNCHANGED <<mergeVars, envVars, callVars, pageVars>>

\* get_statistics, lines 141-143: full_statistics is over, the guard is
\* dropped
StatReturn ==
    /\ req_pc["S"] = "running"
    /\ fs_pc \in {"done", "panicked"}
    /\ req_pc' = [req_pc EXCEPT !["S"] = fs_pc]
    /\ SetLock(rw_release(LockState, "S"))
    /\ UNCHANGED <<last_data, last_dist, req_in, histVars>>
    /\ UNCHANGED <<mergeVars, envVars, callVars, statVars, pageVars>>

\* a handler that moves the retained data out of the slot instead of
\* cloning the Arc
PageRunTake ==
    /\ req_pc["P"] = "lock"
    /\ Holds("P")
    /\ LET r == get_page(last_data, req_in["P"], overflow_checks)
       IN  /\ pg_nums' = last_data
           /\ pg_pagenum' = req_in["P"]
           /\ pg_result' = IF r.ok THEN r.v ELSE <<>>
           /\ pg_pc' = IF r.ok THEN "done" ELSE "panicked"
           /\ req_pc' = [req_pc EXCEPT !["P"] = IF r.ok THEN "done" ELSE "panicked"]
    /\ obs' = [obs EXCEPT !["P"] = Observation]
    /\ SetLock(rw_release(LockState, "P"))
    /\ last_data' = <<>>
    /\ UNCHANGED <<last_dist, req_in, written, gen_result, lock_order, waited>>
    /\ UNCHANGED <<mergeVars, envVars, callVars, statVars>>

\* get_page_numbers, line 156: get_page on a clone of the retained data,
\* then the guard is dropped
PageRun ==
    /\ req_pc["P"] = "lock"
    /\ Holds("P")
    /\ LET r == get_page(last_data, req_in["P"], overflow_checks)
       IN  /\ pg_nums' = last_data
           /\ pg_pagenum' = req_in["P"]
           /\ pg_result' = IF r.ok THEN r.v ELSE <<>>
           /\ pg_pc' = IF r.ok THEN "done" ELSE "panicked"
           /\ req_pc' = [req_pc EXCEPT !["P"] = IF r.ok THEN "done" ELSE "panicked"]
    /\ obs' = [obs EXCEPT !["P"] = Observation]
    /\ SetLock(rw_release(LockState, "P"))
    /\ UNCHANGED <<last_data, last_dist, req_in, written, gen_result,
                   lock_order, waited>>
    /\ UNCHANGED <<mergeVars, envVars, callVars, statVars>>

(***************************************************************************)
(* Idle values of the parts a specification does not exercise              *)
(***************************************************************************)
MergeIdle ==
    /\ intervals = <<>> /\ mi_next = 1 /\ merged_intervals = <<>>
    /\ pending = <<>> /\ mi_result = <<>> /\ mi_pc = "idle"

EnvIdle == threads = 4 /\ overflow_checks = FALSE

CritIdle ==
    /\ cv_df = 1 /\ cv_alpha = 1 /\ cv_index = Ok([row |-> 1, col |-> 1])
    /\ cv_result = <<0, 0>> /\ cv_pc = "idle"

RngIdle ==
    /\ lcg_x0 = 0 /\ lcg_m = 1 /\ lcg_a = 0 /\ lcg_c = 0 /\ lcg_seed = 0
    /\ lcg_draws = <<>> /\ lcg_pc = "idle"

ExpIdle ==
    /\ ge_self = Uniform(FInt(10), FInt(11)) /\ ge_intervals = 0
    /\ ge_lower = FInt(0) /\ ge_upper = FInt(0) /\ ge_size = FInt(0)
    /\ ge_interval = FInt(0) /\ ge_interval_list = <<>> /\ ge_pc = "idle"

\* a call record of Normal::next before any call
NoCall ==
    [pair |-> <<>>, pos |-> 0, ret |-> FInt(0), left |-> <<>>, taken |-> 0]

NormIdle ==
    /\ nm_self = [kind |-> "Normal", algorithm |-> "BoxMuller",
                  mean |-> FInt(0), sd |-> FInt(1), pair |-> <<>>]
    /\ nm_rand = [seq |-> <<FInt(0)>>, pos |-> 0]
    /\ nm_calls = 0 /\ nm_last = NoCall /\ nm_prev = NoCall

PoisIdle ==
    /\ pe_self = [kind |-> "Poisson", lambda |-> FInt(1)]
    /\ pe_intervals = 0 /\ pe_lower = FInt(0) /\ pe_interval = 0
    /\ pe_interval_list = <<>> /\ pe_divisors = <<>> /\ pe_pc = "idle"

UnitIdle == NormIdle /\ PoisIdle

CallIdle == CritIdle /\ RngIdle /\ ExpIdle /\ UnitIdle

(***************************************************************************)
(* SpecMerge: merge_intervals run on every bounded interval sequence that  *)
(* full_statistics can build (bins in order, lower + i*size)               *)
(***************************************************************************)
\* expected and observed frequencies of the bins drawn
FeValues == {-1, 0, 3, 5}
FoValues == {0, 1}
\* bin widths drawn (0 is the degenerate range floor(min) = ceil(max))
SizeValues == {0, 1}

\* the interval list of full_statistics for the given bin width
BinList(size, fos, fes) ==
    [i \in 1..Len(fes) |->
        ChiInterval(FInt((i - 1) * size), FInt(i * size), fos[i], FInt(fes[i]))]

InitMerge ==
    /\ \E n \in 0..MaxBins, size \in SizeValues :
         \E fos \in [1..n -> FoValues], fes \in [1..n -> FeValues] :
            intervals = BinList(size, fos, fes)
    /\ mi_next = 1
    /\ merged_intervals = <<>>
    /\ pending = <<>>
    /\ mi_result = <<>>
    /\ mi_pc = "loop"
    /\ EnvIdle
    /\ StatIdle
    /\ PageIdle
    /\ SlotIdle
    /\ CallIdle

\* one iteration of the for loop
MergeIterate ==
    /\ mi_pc = "loop"
    /\ mi_next <= Len(intervals)
    /\ LET st == merge_loop_body([merged_intervals |-> merged_intervals,
                                  pending |-> pending], intervals[mi_next])
       IN  /\ merged_intervals' = st.merged_intervals
           /\ pending' = st.pending
    /\ mi_next' = mi_next + 1
    /\ UNCHANGED <<intervals, mi_result, mi_pc>>
    /\ UNCHANGED <<envVars, callVars, statVars, pageVars, slotVars>>

\* the loop is over: handle what is pending and return
MergeReturn ==
    /\ mi_pc = "loop"
    /\ mi_next > Len(intervals)
    /\ mi_result' = merge_tail([merged_intervals |-> merged_intervals,
                                pending |-> pending])
    /\ mi_pc' = "done"
    /\ UNCHANGED <<intervals, mi_next, merged_intervals, pending>>
    /\ UNCHANGED <<envVars, callVars, statVars, pageVars, slotVars>>

NextMerge == MergeIterate \/ MergeReturn

SpecMerge == InitMerge /\ [][NextMerge]_vars

(***************************************************************************)
(* Claims on merge_intervals                                               *)
(***************************************************************************)
RECURSIVE SumFo(_)
SumFo(ivs) == IF ivs = <<>> THEN 0 ELSE Head(ivs).fo + SumFo(Tail(ivs))

RECURSIVE SumFe(_)
SumFe(ivs) == IF ivs = <<>> THEN FInt(0) ELSE FAdd(Head(ivs).fe, SumFe(Tail(ivs)))

\* C1: when merge_intervals has returned, the sum of fo and the sum of fe
\* of the returned sequence equal those of the argument
C1_MergeConservation ==
    mi_pc = "done" =>
        /\ SumFo(mi_result) = SumFo(intervals)
        /\ SumFe(mi_result) = SumFe(intervals)

\* a run that ended with bins still pending behind an emitted interval
C1_Witness ==
    /\ mi_pc = "done"
    /\ pending # <<>>
    /\ merged_intervals # <<>>
    /\ Len(intervals) >= 3
    /\ SumFo(intervals) >= 2

NonNegativeFe(ivs) == \A i \in 1..Len(ivs) : FGe(ivs[i].fe, FInt(0))

Nth(S, j) == CHOOSE e \in S : Cardinality({x \in S : x <= e}) = j

\* the bins first..last of ivs
Run(ivs, first, last) == SubSeq(ivs, first, last)

\* out is ivs cut into Len(out) contiguous runs ending at the indices ends
IsRunPartition(ivs, out, ends) ==
    \A j \in 1..Len(out) :
        LET first == IF j = 1 THEN 1 ELSE Nth(ends, j - 1) + 1
            last == Nth(ends, j)
        IN  /\ out[j].lower = ivs[first].lower
            /\ out[j].upper = ivs[last].upper
            /\ out[j].fo = SumFo(Run(ivs, first, last))
            /\ out[j].fe = SumFe(Run(ivs, first, last))
            \* an emitted run other than the last one ends at the first bin
            \* at which its accumulated fe reaches the threshold
            /\ j < Len(out) =>
                  /\ FGe(out[j].fe, Threshold)
                  /\ \A e \in first..(last - 1) :
                        ~FGe(SumFe(Run(ivs, first, e)), Threshold)

\* C3: the returned sequence is the argument cut, in order, into contiguous
\* runs that together give the whole argument; each returned interval
\* spans from the lower bound of the first bin of its run to the upper
\* bound of its last bin; the result is non-empty when the argument is
C3_MergePartition ==
    mi_pc = "done" =>
        LET n == Len(intervals)
            m == Len(mi_result)
        IN  IF n = 0 THEN m = 0
            ELSE /\ m >= 1
                 /\ \E cuts \in SUBSET (1..(n - 1)) :
                       /\ Cardinality(cuts) = m - 1
                       /\ IsRunPartition(intervals, mi_result, cuts \cup {n})

\* two runs, the second one holding trailing under-threshold bins
C3_Witness ==
    /\ mi_pc = "done"
    /\ Len(intervals) = 4
    /\ Len(mi_result) = 2
    /\ pending # <<>>
    /\ mi_result[2].lower # mi_result[1].lower


(***************************************************************************)
(* SpecStats: full_statistics called on every bounded sample, interval     *)
(* count and descriptor, on every machine and build                        *)
(***************************************************************************)
SampleValues == {FInt(10), Fin(21, 2), FInt(12)}

StatDists ==
    {Uniform(FInt(10), FInt(11)), Uniform(FInt(10), FInt(12)),
     Normal("BoxMuller", FInt(11), FInt(1), <<>>),
     Exponential(FInt(1)), Poisson(FInt(11))}

BoundedSeq(S, n) == UNION {[1..m -> S] : m \in 0..n}

InitStats ==
    /\ nums \in BoundedSeq(SampleValues, MaxSample)
    /\ input_intervals \in 0..MaxIntervals
    /\ dist \in StatDists
    /\ threads \in 1..MaxThreads
    /\ overflow_checks \in BOOLEAN
    /\ StatEntry
    /\ MergeIdle
    /\ PageIdle
    /\ SlotIdle
    /\ CallIdle

NextStats ==
    \/ FsStart
    \/ FsSpawn
    \/ \E t \in 1..Len(fs_tasks) : FsTask(t)
    \/ FsAwait
    \/ FsFinish

SpecStats == InitStats /\ [][NextStats]_vars

(***************************************************************************)
(* Claims on full_statistics                                               *)
(***************************************************************************)
RECURSIVE SumSeq(_)
SumSeq(q) == IF q = <<>> THEN 0 ELSE Head(q) + SumSeq(Tail(q))

\* the call reached the code after the join loop
ReachedFinish ==
    \/ fs_pc = "done"
    \/ fs_panic \in {"get_degrees", "chi_squared_critical_value"}

\* C4: for a sample of n >= 1 values and k >= 1 intervals, on every machine,
\* the observed-count vector of the response has length k and sums to n
C4_ObservedCounts ==
    (fs_pc = "done" /\ Len(nums) >= 1 /\ input_intervals >= 1) =>
        /\ Len(fs_response.histogram.y) = input_intervals
        /\ SumSeq(fs_response.histogram.y) = Len(nums)

\* C5: a call on an empty sample neither panics nor returns a response
\* (it is to fail with an EmptySample error before computing anything);
\* stated for machines with at least 3 hardware threads, on which the
\* counting stage starts at least one task
C5_EmptySampleFails ==
    (nums = <<>> /\ threads >= 3) => fs_pc \notin {"done", "panicked"}

\* C10: whenever the critical value is looked up for at least one merged
\* interval of a non-empty sample, the degrees of freedom passed, which are
\* dist.get_degrees(number of merged intervals), are at least 1
C10_DegreesAtLeastOne ==
    (ReachedFinish /\ Len(fs_merged) >= 1 /\ nums # <<>> /\ threads >= 3) =>
        /\ fs_df = get_degrees(dist, Len(fs_merged), overflow_checks)
        /\ fs_df.ok /\ fs_df.v >= 1

\* the sum of the terms (fo - fe)^2 / fe of the intervals with fe > 0
RECURSIVE GuardedSum(_)
GuardedSum(ivs) ==
    IF ivs = <<>> THEN FInt(0)
    ELSE FAdd(IF FGt(Head(ivs).fe, FInt(0)) THEN set_c(Head(ivs)) ELSE FInt(0),
              GuardedSum(Tail(ivs)))

\* C11: the statistic of a response is the sum of (fo - fe)^2 / fe over the
\* merged intervals with fe > 0, intervals with fe = 0 being skipped, and so
\* is a finite number >= 0; stated for a non-empty sample, at least one
\* interval and a machine on which the counting stage starts a task
C11_CalculatedSkipsZeroFe ==
    (fs_pc = "done" /\ nums # <<>> /\ input_intervals >= 1 /\ threads >= 3) =>
        /\ fs_response.test.calculated = GuardedSum(fs_response.test.intervals)
        /\ IsFin(fs_response.test.calculated)
        /\ FGe(fs_response.test.calculated, FInt(0))

\* C14: a call with an interval count of 0 is rejected before any binning,
\* expected-frequency or merging step: it starts no counting task, and it
\* ends neither in a panic nor in a response; stated for a non-empty sample
\* and a machine on which the counting stage starts a task
C14_ZeroIntervalsRejected ==
    (input_intervals = 0 /\ nums # <<>> /\ threads >= 3) =>
        /\ fs_tasks = <<>>
        /\ fs_pc \notin {"done", "panicked"}

\* floor(min) = ceil(max): every sample is the same integer value
DegenerateRange(ns) == ns # <<>> /\ lower_bound(ns) = upper_bound(ns)

\* a counting task has gone through a non-empty slice: it has computed
\* (num - lower) / size for each of its samples (line 252)
DividedBySize(t) == t.state # "spawned" /\ t.start < t.end

IsFinSeq(q) == \A i \in 1..Len(q) : IsFin(q[i])

\* C15: on a degenerate range the call does not divide by a zero bin width
\* and does not fail; its response counts every sample in a bin and reports
\* a finite bin width and finite bin bounds; stated for at least one
\* interval and a machine on which the counting stage starts a task
C15_DegenerateRangeHandled ==
    (DegenerateRange(nums) /\ input_intervals >= 1 /\ threads >= 3) =>
        /\ \A t \in 1..Len(fs_tasks) :
              DividedBySize(fs_tasks[t]) => ~FEq(fs_size, FInt(0))
        /\ fs_pc # "panicked"
        /\ fs_pc = "done" =>
              /\ SumSeq(fs_response.histogram.y) = Len(nums)
              /\ IsFin(fs_response.histogram.size)
              /\ IsFin(fs_response.histogram.lower)
              /\ IsFin(fs_response.histogram.upper)
              /\ IsFinSeq(fs_response.histogram.x)
              /\ \A i \in 1..Len(fs_response.test.intervals) :
                    /\ IsFin(fs_response.test.intervals[i].lower)
                    /\ IsFin(fs_response.test.intervals[i].upper)

\* C18: the partition a response was binned and evaluated with is the one
\* dist.get_intervals makes of (floor(min), ceil(max), requested count);
\* for Poisson it has bins of width 1, one per integer value of the sample
\* range, whatever count was requested; stated for a non-empty sample, at
\* least one interval and a machine on which the counting stage starts a
\* task
C18_PartitionFromHook ==
    (fs_pc = "done" /\ nums # <<>> /\ input_intervals >= 1 /\ threads >= 3) =>
        LET lim == get_intervals(dist,
                       DistributionLimits(lower_bound(nums), upper_bound(nums),
                                          input_intervals))
            h == fs_response.histogram
        IN  /\ h.lower = lim.lower
            /\ h.upper = lim.upper
            /\ Len(h.y) = lim.intervals
            /\ Len(h.x) = lim.intervals
            /\ dist.kind = "Poisson" =>
                  /\ h.size = FInt(1)
                  /\ FInt(Len(h.y)) = FSub(h.upper, h.lower)

Max(a, b) == IF a > b THEN a ELSE b

\* the spawn loop of lines 130-142 has run to its end
SpawnLoopDone ==
    /\ fs_pc \notin {"start", "spawn"}
    /\ fs_panic \notin {"threads - 2", "with_capacity", "nums.len() - start"}

\* the sample indices (from 0) of the range [start, end) given to a task
TaskIndices(t) == {i \in 0..(Len(nums) - 1) : t.start <= i /\ i < t.end}

\* the count vector obtained by counting the whole sample in one pass
SequentialCount ==
    parse_intervals(nums, input_intervals, fs_lower, fs_size, 0, Len(nums),
                    overflow_checks)

\* C21: for a sample of n >= 1 values on a machine with p >= 1 hardware
\* threads (and at least one interval), the call gets through the spawn
\* loop, starts max(p - 2, 1) counting tasks, gives them ranges
\* [start, end) with start <= end <= n that are pairwise disjoint and
\* cover 0..n-1, and the element-wise sum of the count vectors of the
\* tasks is the count vector of a sequential pass over the sample
C21_ParallelCounting ==
    (Len(nums) >= 1 /\ input_intervals >= 1) =>
        /\ fs_panic \notin {"threads - 2", "with_capacity", "nums.len() - start"}
        /\ SpawnLoopDone =>
              /\ Len(fs_tasks) = Max(threads - 2, 1)
              /\ \A t \in 1..Len(fs_tasks) :
                    /\ fs_tasks[t].start <= fs_tasks[t].end
                    /\ fs_tasks[t].end <= Len(nums)
              /\ \A t, u \in 1..Len(fs_tasks) :
                    t # u => TaskIndices(fs_tasks[t]) \cap TaskIndices(fs_tasks[u]) = {}
              /\ UNION {TaskIndices(fs_tasks[t]) : t \in 1..Len(fs_tasks)}
                     = 0..(Len(nums) - 1)
              /\ (\A t \in 1..Len(fs_tasks) : fs_tasks[t].state = "finished") =>
                    Ok(sum_results(Zeros(input_intervals), fs_tasks)) = SequentialCount

(***************************************************************************)
(* SpecPage: get_page called on samples of every bounded length with page  *)
(* numbers in and out of range, in both builds                             *)
(***************************************************************************)
\* the page numbers drawn: the first pages, and numbers for which
\* page_size * (pagenum - 1) leaves the range of usize
PageNumbers == {0, 1, 2, 3, UsizeMax \div page_size + 2, USIZE \div 2 + 1}

InitPage ==
    /\ \E n \in 0..MaxPageLen : pg_nums = [i \in 1..n |-> FInt(i)]
    /\ pg_pagenum \in PageNumbers
    /\ pg_result = <<>>
    /\ pg_pc = "start"
    /\ threads = 4
    /\ overflow_checks \in BOOLEAN
    /\ MergeIdle
    /\ StatIdle
    /\ SlotIdle
    /\ CallIdle

NextPage == GetPage

SpecPage == InitPage /\ [][NextPage]_vars

\* the page the interface promises: the elements at the indices
\* 30*(p-1) .. min(30*p, n) - 1 when that range lies inside the sample,
\* nothing otherwise
ExpectedPage(ns, p) ==
    IF p >= 1 /\ page_size * (p - 1) <= Len(ns)
    THEN SubSeq(ns, page_size * (p - 1) + 1, Min(page_size * p, Len(ns)))
    ELSE <<>>

\* C9: for every sample and every page number, 0 and numbers beyond the
\* last page included, get_page returns without failing, and returns the
\* promised page
C9_PageNeverFails ==
    pg_pc \in {"done", "panicked"} =>
        /\ pg_pc = "done"
        /\ pg_result = ExpectedPage(pg_nums, pg_pagenum)

(***************************************************************************)
(* SpecCritical: chi_squared_critical_value called with every bounded df   *)
(* and every index of a tabulated significance level, in both builds       *)
(***************************************************************************)
InitCritical ==
    /\ cv_df \in 0..MaxDf \cup {UsizeMax}
    /\ cv_alpha \in 1..10
    /\ cv_index = Ok([row |-> 1, col |-> 1])
    /\ cv_result = <<0, 0>>
    /\ cv_pc = "start"
    /\ RngIdle
    /\ ExpIdle
    /\ UnitIdle
    /\ threads = 4
    /\ overflow_checks \in BOOLEAN
    /\ MergeIdle
    /\ StatIdle
    /\ PageIdle
    /\ SlotIdle

\* the call of chi_squared_critical_value
CriticalValue ==
    /\ cv_pc = "start"
    /\ LET i == critical_index(cv_df, cv_alpha, overflow_checks)
       IN  /\ cv_index' = i
           /\ cv_result' = IF i.ok THEN list[i.v.row][i.v.col] ELSE <<0, 0>>
           /\ cv_pc' = IF i.ok THEN "done" ELSE "panicked"
    /\ UNCHANGED <<cv_df, cv_alpha, rngVars, expVars, unitVars>>
    /\ UNCHANGED <<mergeVars, envVars, statVars, pageVars, slotVars>>

NextCritical == CriticalValue

SpecCritical == InitCritical /\ [][NextCritical]_vars

\* the f64 an f32 <<n, e>> is cast to (exact)
F32AsF64(x) == Fin(x[1], 2 ^ x[2])

\* (x * 100f64).trunc() / 100f64 of a non-negative x, as hundredths
TruncHundredths(x) == FAsUsize(FMul(x, FInt(100)), UsizeMax)

\* C12: at the significance level full_statistics uses (index 7, 0.05) the
\* value returned, truncated to 2 decimals, is 7.81 for df = 3, 11.07 for
\* df = 5 and 14.06 for df = 7
C12_CriticalValues ==
    (cv_pc \in {"done", "panicked"} /\ cv_alpha = Alpha /\ cv_df \in {3, 5, 7}) =>
        /\ cv_pc = "done"
        /\ TruncHundredths(F32AsF64(cv_result)) =
              CASE cv_df = 3 -> 781 [] cv_df = 5 -> 1107 [] cv_df = 7 -> 1406

\* the degrees of freedom full_statistics can pass in this build: what
\* get_degrees returns for a descriptor and at least one merged interval
PipelineDf(df) ==
    \E d \in StatDists, n \in 1..(MaxDf + 3) :
        get_degrees(d, n, overflow_checks) = Ok(df)

\* C13: for every df the pipeline can pass and every significance index
\* 1..10 the call reads an entry inside the 10 x 100 table, and for df > 100
\* it returns the entry of df = 100
C13_LookupInsideTable ==
    (cv_pc \in {"done", "panicked"} /\ PipelineDf(cv_df) /\ cv_alpha \in 1..10) =>
        /\ cv_pc = "done"
        /\ cv_index.v.row = cv_alpha
        /\ cv_index.v.col \in 1..100
        /\ cv_df > 100 => cv_result = list[cv_alpha][100]

(***************************************************************************)
(* SpecRng: next() called up to MaxDraws times on generators built by      *)
(* LinearCongruentialGenerator::new, in both builds                        *)
(***************************************************************************)
\* the arguments of new() drawn: those of test_random, and values for
\* which a * x0 + c leaves the range of u64
SeedValues == {0, 6, USIZE \div 2, UsizeMax}
ModulusValues == {1, 7, 8}
MultiplierValues == {1, 13}
IncrementValues == {0, 7}

InitRng ==
    /\ lcg_seed \in SeedValues
    /\ lcg_x0 = lcg_seed
    /\ lcg_m \in ModulusValues
    /\ lcg_a \in MultiplierValues
    /\ lcg_c \in IncrementValues
    /\ lcg_draws = <<>>
    /\ lcg_pc = "ready"
    /\ CritIdle
    /\ ExpIdle
    /\ UnitIdle
    /\ threads = 4
    /\ overflow_checks \in BOOLEAN
    /\ MergeIdle
    /\ StatIdle
    /\ PageIdle
    /\ SlotIdle

\* one call of next()
LcgNext ==
    /\ lcg_pc = "ready"
    /\ Len(lcg_draws) < MaxDraws
    /\ LET r == lcg_next(LinearCongruentialGenerator(lcg_x0, lcg_m, lcg_a, lcg_c),
                         overflow_checks)
       IN  IF r.ok
           THEN /\ lcg_x0' = r.v.x0
                /\ lcg_draws' = Append(lcg_draws, r.v.ret)
                /\ UNCHANGED lcg_pc
           ELSE /\ lcg_pc' = "panicked"
                /\ UNCHANGED <<lcg_x0, lcg_draws>>
    /\ UNCHANGED <<lcg_m, lcg_a, lcg_c, lcg_seed, critVars, expVars, unitVars>>
    /\ UNCHANGED <<mergeVars, envVars, statVars, pageVars, slotVars>>

NextRng == LcgNext

SpecRng == InitRng /\ [][NextRng]_vars

\* the state after n steps of x -> (a*x + c) mod m from x, in the integers
RECURSIVE LcgState(_, _, _, _, _)
LcgState(x, m, a, c, n) ==
    IF n = 0 THEN x ELSE LcgState((a * x + c) % m, m, a, c, n - 1)

\* C16: every next() replaces the state x by (a*x + c) mod m and returns
\* x/m: no call fails, after n calls the state is the n-th iterate of the
\* recurrence from x0 (in 0..m-1 for n >= 1), the i-th draw is the i-th
\* iterate divided by m and lies in [0,1), and from (6, 8, 13, 7) the draws
\* are 0.625, 0.0, 0.875
C16_LcgRecurrence ==
    LET n == Len(lcg_draws)
    IN  lcg_pc # "idle" =>
          /\ lcg_pc = "ready"
          /\ lcg_x0 = LcgState(lcg_seed, lcg_m, lcg_a, lcg_c, n)
          /\ n >= 1 => lcg_x0 \in 0..(lcg_m - 1)
          /\ \A i \in 1..n :
                /\ lcg_draws[i] =
                      Fin(LcgState(lcg_seed, lcg_m, lcg_a, lcg_c, i), lcg_m)
                /\ FGe(lcg_draws[i], FInt(0)) /\ FLt(lcg_draws[i], FInt(1))
          /\ (lcg_seed = 6 /\ lcg_m = 8 /\ lcg_a = 13 /\ lcg_c = 7) =>
                lcg_draws = SubSeq(<<Fin(5, 8), FInt(0), Fin(7, 8)>>, 1, n)

(***************************************************************************)
(* SpecSeed: the generator a generation request builds with                *)
(* with_seed(data.seed), for seeds over the whole range of u64, in both    *)
(* builds                                                                  *)
(***************************************************************************)
\* the largest x for which a * x + c of with_seed stays in the word
LastSafeSeed == (UsizeMax - with_seed_c) \div with_seed_a

\* the seeds a request can carry (seed: u64): small ones, those around the
\* modulus and around the last safe one, and the largest ones
SeedRequests ==
    (0..20) \cup {with_seed_m - 1, with_seed_m, with_seed_m + 1}
        \cup {LastSafeSeed - 1, LastSafeSeed, LastSafeSeed + 1}
        \cup {USIZE \div 2, UsizeMax - 1, UsizeMax}

InitSeed ==
    /\ lcg_seed \in SeedRequests
    /\ LET rng == with_seed(lcg_seed)
       IN  /\ lcg_x0 = rng.x0
           /\ lcg_m = rng.m
           /\ lcg_a = rng.a
           /\ lcg_c = rng.c
    /\ lcg_draws = <<>>
    /\ lcg_pc = "ready"
    /\ CritIdle
    /\ ExpIdle
    /\ UnitIdle
    /\ threads = 4
    /\ overflow_checks \in BOOLEAN
    /\ MergeIdle
    /\ StatIdle
    /\ PageIdle
    /\ SlotIdle

NextSeed == LcgNext

SpecSeed == InitSeed /\ [][NextSeed]_vars

\* C24: for every seed of a request, no next() of the generator built by
\* with_seed(seed) fails, and in every call made, the first included,
\* a * x + c is within the unsigned word
C24_SeedNeverOverflows ==
    lcg_pc # "idle" =>
        /\ lcg_pc = "ready"
        /\ \A i \in 0..(Len(lcg_draws) - 1) :
              lcg_a * LcgState(lcg_seed, lcg_m, lcg_a, lcg_c, i) + lcg_c <= UsizeMax

(***************************************************************************)
(* SpecExpected: Uniform::get_expected called on descriptors with          *)
(* lower < upper and on equal-width partitions that lie inside the         *)
(* support, overlap it, contain it or miss it                              *)
(***************************************************************************)
\* the descriptors drawn: those of test_expected_uniform, Uniform(1, 2) and
\* a narrow one
ExpectedDists ==
    {Uniform(FInt(0), FInt(5)), Uniform(FInt(0), Fin(1, 2)),
     Uniform(FInt(1), FInt(2)), Uniform(Fin(21, 2), Fin(53, 5))}

\* the (lower, upper) of the partitions drawn
ExpectedRanges ==
    {<<FInt(0), FInt(5)>>, <<FInt(0), FInt(1)>>, <<FInt(0), FInt(3)>>,
     <<FInt(10), FInt(11)>>}

InitExpected ==
    /\ ge_self \in ExpectedDists
    /\ ge_intervals \in 1..MaxParts
    /\ \E r \in ExpectedRanges : ge_lower = r[1] /\ ge_upper = r[2]
    /\ ge_size = FInt(0)
    /\ ge_interval = FInt(0)
    /\ ge_interval_list = <<>>
    /\ ge_pc = "start"
    /\ CritIdle
    /\ RngIdle
    /\ UnitIdle
    /\ EnvIdle
    /\ MergeIdle
    /\ StatIdle
    /\ PageIdle
    /\ SlotIdle

\* lines 16-18: size and the start of the first bin
ExpectedStart ==
    /\ ge_pc = "start"
    /\ ge_size' = FDiv(FSub(ge_upper, ge_lower), FInt(ge_intervals))
    /\ ge_interval' = ge_lower
    /\ ge_pc' = "loop"
    /\ UNCHANGED <<ge_self, ge_intervals, ge_lower, ge_upper, ge_interval_list>>
    /\ UNCHANGED <<critVars, rngVars, unitVars>>
    /\ UNCHANGED <<mergeVars, envVars, statVars, pageVars, slotVars>>

\* lines 19-35: one iteration of the for loop
ExpectedIterate ==
    /\ ge_pc = "loop"
    /\ Len(ge_interval_list) < ge_intervals
    /\ ge_interval_list' =
          Append(ge_interval_list, uniform_mass(ge_self, ge_interval, ge_size))
    /\ ge_interval' = FAdd(ge_interval, ge_size)
    /\ UNCHANGED <<ge_self, ge_intervals, ge_lower, ge_upper, ge_size, ge_pc>>
    /\ UNCHANGED <<critVars, rngVars, unitVars>>
    /\ UNCHANGED <<mergeVars, envVars, statVars, pageVars, slotVars>>

\* line 36: the loop is over and interval_list is returned
ExpectedReturn ==
    /\ ge_pc = "loop"
    /\ Len(ge_interval_list) = ge_intervals
    /\ ge_pc' = "done"
    /\ UNCHANGED <<ge_self, ge_intervals, ge_lower, ge_upper, ge_size,
                   ge_interval, ge_interval_list>>
    /\ UNCHANGED <<critVars, rngVars, unitVars>>
    /\ UNCHANGED <<mergeVars, envVars, statVars, pageVars, slotVars>>

NextExpected == ExpectedStart \/ ExpectedIterate \/ ExpectedReturn

SpecExpected == InitExpected /\ [][NextExpected]_vars

\* the length of the overlap of [lo, hi] with [a, b]
Overlap(lo, hi, a, b) ==
    LET d == FSub(FMin(hi, b), FMax(lo, a))
    IN  IF FLt(d, FInt(0)) THEN FInt(0) ELSE d

RECURSIVE SumF(_)
SumF(q) == IF q = <<>> THEN FInt(0) ELSE FAdd(Head(q), SumF(Tail(q)))

\* C17: for Uniform(a, b) with a < b and an equal-width partition, the
\* vector returned holds for each bin the length of the overlap of the bin
\* with [a, b] divided by b - a; each mass is in [0, 1] and the masses sum
\* to at most 1; Uniform(0, 5) over 5 bins of [0, 5] gives 0.2 per bin and
\* Uniform(0, 0.5) over 4 bins of [0, 1] gives 0.5, 0.5, 0, 0
C17_UniformOverlap ==
    ge_pc = "done" =>
        LET a == ge_self.lower
            b == ge_self.upper
            w == FDiv(FSub(ge_upper, ge_lower), FInt(ge_intervals))
            lo(i) == FAdd(ge_lower, FMul(FInt(i - 1), w))
        IN  /\ Len(ge_interval_list) = ge_intervals
            /\ \A i \in 1..ge_intervals :
                  /\ ge_interval_list[i] =
                        FDiv(Overlap(lo(i), lo(i + 1), a, b), FSub(b, a))
                  /\ FGe(ge_interval_list[i], FInt(0))
                  /\ FLe(ge_interval_list[i], FInt(1))
            /\ FLe(SumF(ge_interval_list), FInt(1))
            /\ (ge_self = Uniform(FInt(0), FInt(5)) /\ ge_intervals = 5
                   /\ ge_lower = FInt(0) /\ ge_upper = FInt(5)) =>
                  ge_interval_list = [i \in 1..5 |-> Fin(1, 5)]
            /\ (ge_self = Uniform(FInt(0), Fin(1, 2)) /\ ge_intervals = 4
                   /\ ge_lower = FInt(0) /\ ge_upper = FInt(1)) =>
                  ge_interval_list = <<Fin(1, 2), Fin(1, 2), FInt(0), FInt(0)>>

(***************************************************************************)
(* SpecNormal: Normal::next called repeatedly on one descriptor with one   *)
(* random source, for both algorithms, with and without a stored pair      *)
(***************************************************************************)
\* a random source (dyn Random): the values it yields, repeated without
\* end, and the number of draws taken from it so far
RandomSource(seq) == [seq |-> seq, pos |-> 0]

\* the value the source yields at its i-th draw (from 0)
Yield(rand, i) == rand.seq[(i % Len(rand.seq)) + 1]

\* rand.next(): the value drawn and the source after the draw
rand_next(rand) ==
    [ret |-> Yield(rand, rand.pos), rand |-> [rand EXCEPT !.pos = @ + 1]]

\* (-2 ln(1 - rnd1)).sqrt() of line 94, to five decimals, for the draws
\* k/8
bm_radius(u) ==
    CASE u = FInt(0) -> FInt(0)
      [] u = Fin(1, 8) -> Fin(51678, 100000)
      [] u = Fin(2, 8) -> Fin(75853, 100000)
      [] u = Fin(3, 8) -> Fin(96954, 100000)
      [] u = Fin(4, 8) -> Fin(117741, 100000)
      [] u = Fin(5, 8) -> Fin(140059, 100000)
      [] u = Fin(6, 8) -> Fin(166511, 100000)
      [] u = Fin(7, 8) -> Fin(203933, 100000)

\* (2 PI rnd2).cos() and .sin() of lines 94-95 for the draws k/8: exact at
\* the multiples of 1/4, 7/10 in absolute value between them
bm_cos(u) ==
    CASE u = FInt(0) -> FInt(1)
      [] u = Fin(1, 8) -> Fin(7, 10)
      [] u = Fin(2, 8) -> FInt(0)
      [] u = Fin(3, 8) -> Fin(-7, 10)
      [] u = Fin(4, 8) -> FInt(-1)
      [] u = Fin(5, 8) -> Fin(-7, 10)
      [] u = Fin(6, 8) -> FInt(0)
      [] u = Fin(7, 8) -> Fin(7, 10)

bm_sin(u) ==
    CASE u = FInt(0) -> FInt(0)
      [] u = Fin(1, 8) -> Fin(7, 10)
      [] u = Fin(2, 8) -> FInt(1)
      [] u = Fin(3, 8) -> Fin(7, 10)
      [] u = Fin(4, 8) -> FInt(0)
      [] u = Fin(5, 8) -> Fin(-7, 10)
      [] u = Fin(6, 8) -> FInt(-1)
      [] u = Fin(7, 8) -> Fin(-7, 10)

\* get_bm: two draws, the pair (n1, n2) and the source after them
get_bm(self, rand) ==
    LET d1 == rand_next(rand)
        d2 == rand_next(d1.rand)
        z1 == FMul(bm_radius(d1.ret), bm_cos(d2.ret))
        z2 == FMul(bm_radius(d1.ret), bm_sin(d2.ret))
    IN  [gen |-> <<FAdd(FMul(z1, self.sd), self.mean),
                   FAdd(FMul(z2, self.sd), self.mean)>>,
         rand |-> d2.rand]

\* the loop of lines 104-106: n more draws added to sum
RECURSIVE conv_loop(_, _, _)
conv_loop(rand, sum, n) ==
    IF n = 0 THEN [sum |-> sum, rand |-> rand]
    ELSE LET d == rand_next(rand)
         IN  conv_loop(d.rand, FAdd(sum, d.ret), n - 1)

\* get_conv: the sum of 12 draws less 6, scaled and shifted
get_conv(self, rand) ==
    LET s == conv_loop(rand, FInt(0), 12)
    IN  [ret |-> FAdd(self.mean, FMul(self.sd, FSub(s.sum, FInt(6)))),
         rand |-> s.rand]

\* a next() that returns the stored value without clearing it
next_keeping_pair(self, rand) ==
    IF self.algorithm = "BoxMuller"
    THEN IF self.pair # <<>>
         THEN [ret |-> self.pair[1], self |-> self, rand |-> rand]
         ELSE LET gen == get_bm(self, rand)
              IN  [ret |-> gen.gen[1], self |-> [self EXCEPT !.pair = <<gen.gen[2]>>],
                   rand |-> gen.rand]
    ELSE LET c == get_conv(self, rand)
         IN  [ret |-> c.ret, self |-> self, rand |-> c.rand]

\* Normal::next(&mut self, rand): the value returned, self and the source
\* after the call
next(self, rand) ==
    IF self.algorithm = "BoxMuller"
    THEN IF self.pair # <<>>
         THEN [ret |-> self.pair[1], self |-> [self EXCEPT !.pair = <<>>],
               rand |-> rand]
         ELSE LET gen == get_bm(self, rand)
              IN  [ret |-> gen.gen[1], self |-> [self EXCEPT !.pair = <<gen.gen[2]>>],
                   rand |-> gen.rand]
    ELSE LET c == get_conv(self, rand)
         IN  [ret |-> c.ret, self |-> self, rand |-> c.rand]

\* the first n values of a LinearCongruentialGenerator
RECURSIVE lcg_values(_, _)
lcg_values(g, n) ==
    IF n = 0 THEN <<>>
    ELSE LET r == lcg_next(g, FALSE)
         IN  <<r.v.ret>> \o
             lcg_values(LinearCongruentialGenerator(r.v.x0, g.m, g.a, g.c), n - 1)

\* the source of test_normal_bm and test_normal_conv, which has period 8
Fixture == lcg_values(LinearCongruentialGenerator(6, 8, 13, 7), 8)

\* the sources drawn
Sources ==
    {<<FInt(0)>>, <<Fin(1, 2), Fin(1, 4)>>,
     <<Fin(3, 4), Fin(1, 2), Fin(1, 4)>>, Fixture}

\* the (mean, sd) drawn: those of the tests and the standard ones
Moments == {<<FInt(10), FInt(2)>>, <<FInt(0), FInt(1)>>}

InitNormal ==
    /\ \E algorithm \in {"BoxMuller", "Convolution"}, mo \in Moments,
          pair \in {<<>>, <<FInt(12)>>} :
          nm_self = Normal(algorithm, mo[1], mo[2], pair)
    /\ \E seq \in Sources : nm_rand = RandomSource(seq)
    /\ nm_calls = 0
    /\ nm_last = NoCall
    /\ nm_prev = NoCall
    /\ PoisIdle
    /\ CritIdle
    /\ RngIdle
    /\ ExpIdle
    /\ EnvIdle
    /\ MergeIdle
    /\ StatIdle
    /\ PageIdle
    /\ SlotIdle

\* one call of next()
NormalNext ==
    /\ nm_calls < MaxCalls
    /\ LET o == next(nm_self, nm_rand)
       IN  /\ nm_self' = o.self
           /\ nm_rand' = o.rand
           /\ nm_last' = [pair |-> nm_self.pair, pos |-> nm_rand.pos,
                          ret |-> o.ret, left |-> o.self.pair,
                          taken |-> o.rand.pos - nm_rand.pos]
    /\ nm_prev' = nm_last
    /\ nm_calls' = nm_calls + 1
    /\ UNCHANGED <<poisVars, critVars, rngVars, expVars>>
    /\ UNCHANGED <<mergeVars, envVars, statVars, pageVars, slotVars>>

NextNormal == NormalNext

SpecNormal == InitNormal /\ [][NextNormal]_vars

\* x truncated to four decimals, times 10^4 (trunc_to_dec(x, 4) of lib.rs)
TenThousandths(x) ==
    LET a == Abs(x.n)
        t == (a \div x.d) * 10000 + ((a % x.d) * 10000) \div x.d
    IN  FInt(IF x.n < 0 THEN -t ELSE t)

\* the pair Box-Muller makes of the draws rnd1 and rnd2
BoxMullerPair(self, rnd1, rnd2) ==
    <<FAdd(FMul(FMul(bm_radius(rnd1), bm_cos(rnd2)), self.sd), self.mean),
      FAdd(FMul(FMul(bm_radius(rnd1), bm_sin(rnd2)), self.sd), self.mean)>>

\* C22: with BoxMuller a call made with pair = None takes exactly two
\* draws, returns the first value of the pair made of them and stores the
\* second, and the call after it returns that stored value, takes no draw
\* and leaves pair = None, so calls with and without a stored value
\* alternate; with Convolution every call takes exactly 12 draws and leaves
\* pair as it was; from the source of the tests with mean 10 and sd 2 the
\* values are 12.8011 then 10.0 (BoxMuller) and 8.5 (Convolution)
C22_BoxMullerAlternates ==
    nm_calls >= 1 =>
        /\ nm_rand.pos = nm_last.pos + nm_last.taken
        /\ nm_self.pair = nm_last.left
        /\ nm_self.algorithm = "BoxMuller" =>
              /\ nm_last.pair = <<>> =>
                    LET gen == BoxMullerPair(nm_self, Yield(nm_rand, nm_last.pos),
                                             Yield(nm_rand, nm_last.pos + 1))
                    IN  /\ nm_last.taken = 2
                        /\ nm_last.ret = gen[1]
                        /\ nm_last.left = <<gen[2]>>
              /\ (nm_calls >= 2 /\ nm_prev.pair = <<>>) =>
                    /\ nm_last.pair = nm_prev.left
                    /\ nm_last.ret = nm_prev.left[1]
                    /\ nm_last.taken = 0
                    /\ nm_last.left = <<>>
              /\ (nm_calls >= 2 /\ nm_last.pair = <<>>) => nm_prev.pair # <<>>
              /\ (nm_rand.seq = Fixture /\ nm_self.mean = FInt(10)
                     /\ nm_self.sd = FInt(2)) =>
                    /\ (nm_calls = 1 /\ nm_last.pair = <<>>) =>
                          TenThousandths(nm_last.ret) = FInt(128011)
                    /\ (nm_calls = 2 /\ nm_prev.pair = <<>>) =>
                          nm_last.ret = FInt(10)
        /\ nm_self.algorithm = "Convolution" =>
              /\ nm_last.taken = 12
              /\ nm_last.left = nm_last.pair
              /\ (nm_rand.seq = Fixture /\ nm_self.mean = FInt(10)
                     /\ nm_self.sd = FInt(2) /\ nm_calls = 1) =>
                    nm_last.ret = Fin(17, 2)

\* three calls with BoxMuller from pair = None: the third generates again
C22_Witness ==
    /\ nm_self.algorithm = "BoxMuller"
    /\ nm_calls = 3
    /\ nm_prev.pair # <<>> /\ nm_prev.taken = 0
    /\ nm_last.pair = <<>> /\ nm_last.taken = 2
    /\ nm_rand.pos = 4
    /\ nm_last.ret # nm_last.left[1]

(***************************************************************************)
(* SpecPoisson: Poisson::get_expected of dist/poisson.rs called on its     *)
(* own, for ranges that start at every small integer value, in both builds *)
(***************************************************************************)
\* (a..b).product() in u64: Ok(the product), or Panic when a multiplication
\* leaves the range in a build with overflow checks (it wraps in a build
\* without)
RECURSIVE range_product(_, _, _, _)
range_product(a, b, prod, oc) ==
    IF a >= b THEN Ok(prod)
    ELSE LET p == usize_mul(prod, a, oc)
         IN  IF ~p.ok THEN Panic ELSE range_product(a + 1, b, p.v, oc)

\* factorial(n) of dist/poisson.rs: (1..n).product() as f64, the range
\* 1..n leaving n out
factorial(n, oc) ==
    LET prod == range_product(1, n, 1, oc)
    IN  IF prod.ok THEN Ok(FInt(prod.v)) ELSE Panic

\* f64::powi with an exponent that is not negative
RECURSIVE powi(_, _)
powi(x, n) == IF n = 0 THEN FInt(1) ELSE FMul(x, powi(x, n - 1))

\* the starts of the range drawn: integer values, a negative value and a
\* value with a fraction
LowerValues == {FInt(k) : k \in 0..9} \cup {Fin(-1, 2), Fin(5, 2)}

InitPoisson ==
    /\ pe_self \in {Poisson(FInt(1)), Poisson(FInt(2))}
    /\ pe_intervals \in 0..MaxParts
    /\ pe_lower \in LowerValues
    /\ pe_interval = 0
    /\ pe_interval_list = <<>>
    /\ pe_divisors = <<>>
    /\ pe_pc = "start"
    /\ threads = 4
    /\ overflow_checks \in BOOLEAN
    /\ NormIdle
    /\ CritIdle
    /\ RngIdle
    /\ ExpIdle
    /\ MergeIdle
    /\ StatIdle
    /\ PageIdle
    /\ SlotIdle

\* lines 14-16: interval = lower as u64
PoissonStart ==
    /\ pe_pc = "start"
    /\ pe_interval' = FAsUsize(pe_lower, UsizeMax)
    /\ pe_pc' = "loop"
    /\ UNCHANGED <<pe_self, pe_intervals, pe_lower, pe_interval_list, pe_divisors>>
    /\ UNCHANGED <<normVars, critVars, rngVars, expVars>>
    /\ UNCHANGED <<mergeVars, envVars, statVars, pageVars, slotVars>>

\* lines 17-21: one iteration of the loop; the mass pushed is kept as its
\* quotient by (-lambda).exp()
PoissonIterate ==
    /\ pe_pc = "loop"
    /\ Len(pe_interval_list) < pe_intervals
    /\ LET div == factorial(pe_interval, overflow_checks)
           succ == usize_add(pe_interval, 1, overflow_checks)
       IN  IF ~div.ok \/ ~succ.ok
           THEN /\ pe_pc' = "panicked"
                /\ UNCHANGED <<pe_interval, pe_interval_list, pe_divisors>>
           ELSE /\ pe_interval_list' =
                     Append(pe_interval_list,
                            FDiv(powi(pe_self.lambda, pe_interval), div.v))
                /\ pe_divisors' = Append(pe_divisors, div.v)
                /\ pe_interval' = succ.v
                /\ UNCHANGED pe_pc
    /\ UNCHANGED <<pe_self, pe_intervals, pe_lower>>
    /\ UNCHANGED <<normVars, critVars, rngVars, expVars>>
    /\ UNCHANGED <<mergeVars, envVars, statVars, pageVars, slotVars>>

\* line 22
PoissonReturn ==
    /\ pe_pc = "loop"
    /\ Len(pe_interval_list) = pe_intervals
    /\ pe_pc' = "done"
    /\ UNCHANGED <<pe_self, pe_intervals, pe_lower, pe_interval,
                   pe_interval_list, pe_divisors>>
    /\ UNCHANGED <<normVars, critVars, rngVars, expVars>>
    /\ UNCHANGED <<mergeVars, envVars, statVars, pageVars, slotVars>>

NextPoisson == PoissonStart \/ PoissonIterate \/ PoissonReturn

SpecPoisson == InitPoisson /\ [][NextPoisson]_vars

\* n! in the integers
RECURSIVE Fact(_)
Fact(n) == IF n = 0 THEN 1 ELSE n * Fact(n - 1)

\* n! fits in the unsigned word
FactFits(n) == n <= 12 /\ Fact(n) < USIZE

\* the integer value of the i-th bin of the call
BinValue(i) == FAsUsize(pe_lower, UsizeMax) + i - 1

\* C23: for every bin of integer value n whose n! fits in the word, the
\* divisor get_expected uses is n! and the mass pushed is
\* e^-lambda * lambda^n / n!; the call does not fail on such a bin
C23_PoissonFactorial ==
    /\ \A i \in 1..Len(pe_divisors) :
          FactFits(BinValue(i)) =>
             /\ pe_divisors[i] = FInt(Fact(BinValue(i)))
             /\ pe_interval_list[i] =
                   FDiv(powi(pe_self.lambda, BinValue(i)), FInt(Fact(BinValue(i))))
    /\ pe_pc = "panicked" => ~FactFits(pe_interval)

(***************************************************************************)
(* Spec: the server.  Two generation requests, one statistics request and  *)
(* one page request arrive in any order and run concurrently.              *)
(***************************************************************************)
\* bodies of the generation requests: the Normal one supplies the field
\* pair as well, the last one names a descriptor its data cannot be parsed
\* as
GenBodies ==
    {[seed |-> 1, number |-> 1, distribution |-> "Uniform",
      data |-> [lower |-> FInt(10), upper |-> FInt(12)]],
     [seed |-> 1, number |-> 2, distribution |-> "Exponential",
      data |-> [lambda |-> FInt(1)]],
     [seed |-> 1, number |-> 2, distribution |-> "Normal",
      data |-> [algorithm |-> "BoxMuller", mean |-> FInt(11), sd |-> FInt(1),
                pair |-> <<FInt(12)>>]],
     [seed |-> 1, number |-> 1, distribution |-> "Poisson",
      data |-> [lower |-> FInt(10), upper |-> FInt(12)]]}

\* interval counts of the statistics request, page numbers of the page
\* request
StatBodies == {1}
PageBodies == {1}

Init ==
    /\ last_data = InitialData /\ last_dist = InitialDist
    /\ rw_writer = {} /\ rw_readers = {} /\ rw_queue = <<>>
    /\ req_pc = [r \in Requests |-> "new"]
    /\ \E b1 \in GenBodies, b2 \in GenBodies, k \in StatBodies, p \in PageBodies :
          req_in = [r \in Requests |->
                       CASE r = "G1" -> b1 [] r = "G2" -> b2
                         [] r = "S" -> k [] r = "P" -> p]
    /\ obs = [r \in Evals |-> [seen |-> FALSE, after |-> FALSE,
                               data |-> InitialData, dist |-> InitialDist]]
    /\ written = {[data |-> InitialData, dist |-> InitialDist]}
    /\ gen_result = [g \in Gens |-> [data |-> InitialData, dist |-> InitialDist]]
    /\ lock_order = <<>>
    /\ waited = {}
    /\ threads = 3
    /\ overflow_checks = FALSE
    /\ MergeIdle
    /\ StatIdle
    /\ PageIdle
    /\ CallIdle

Next ==
    \/ \E r \in Requests : ReqLock(r)
    \/ \E g \in Gens : GenClear(g)
    \/ \E g \in Gens : GenRun(g)
    \/ StatCall
    \/ FsStart
    \/ FsSpawn
    \/ \E t \in 1..Len(fs_tasks) : FsTask(t)
    \/ FsAwait
    \/ FsFinish
    \/ StatReturn
    \/ PageRun

Spec == Init /\ [][Next]_vars

(***************************************************************************)
(* Claims on the retained slot                                             *)
(***************************************************************************)
\* C6: what an evaluation request reads from the slot is a (sample,
\* descriptor) pair stored together by one generation request, or the
\* initial pair; never the sample of one request with the descriptor of
\* another, and never the emptied sample of line 77
C6_ObservesWholePair ==
    \A r \in Evals :
        obs[r].seen => [data |-> obs[r].data, dist |-> obs[r].dist] \in written

\* a generation request is between its write().await and the drop of its
\* guard; an evaluation request is between its read().await and the drop
InWrite(g) == req_pc[g] = "cleared" \/ (req_pc[g] = "lock" /\ Holds(g))
InRead(r) == req_pc[r] = "running" \/ (req_pc[r] = "lock" /\ Holds(r))

\* C7: at most one generation request holds the slot, and while one does no
\* evaluation request holds it
C7_WriterExcludes ==
    /\ Cardinality({g \in Gens : InWrite(g)}) <= 1
    /\ (\E g \in Gens : InWrite(g)) => ~(\E r \in Evals : InRead(r))
    /\ Cardinality(rw_writer) <= 1
    /\ rw_writer # {} => rw_readers = {}

\* the statistics request and the page request hold the slot for reading at
\* the same time, while a generation request waits for both
C7_Witness ==
    /\ InRead("S") /\ InRead("P")
    /\ req_pc["S"] = "running"
    /\ \E g \in Gens : g \in waited /\ req_pc[g] = "lock" /\ ~Holds(g)

\* C8: once both generation requests have completed, the retained pair is
\* the pair stored by the one that got write access second, and every
\* evaluation request that read the slot after that read this pair
C8_SecondWriterWins ==
    (\A g \in Gens : req_pc[g] = "done") =>
        /\ Len(lock_order) = 2
        /\ [data |-> last_data, dist |-> last_dist] = gen_result[lock_order[2]]
        /\ \A r \in Evals :
              (obs[r].seen /\ obs[r].after) =>
                 [data |-> obs[r].data, dist |-> obs[r].dist]
                    = gen_result[lock_order[2]]

\* the second request waited for the lock while the first one held it, the
\* two stored different pairs, and both evaluation requests read afterwards
C8_Witness ==
    /\ \A g \in Gens : req_pc[g] = "done"
    /\ Len(lock_order) = 2
    /\ lock_order[2] \in waited
    /\ gen_result[lock_order[1]] # gen_result[lock_order[2]]
    /\ \A r \in Evals : obs[r].seen /\ obs[r].after

\* the parameters of each kind of distribution
Parameters(kind) ==
    CASE kind = "Uniform" -> {"lower", "upper"}
      [] kind = "Normal" -> {"algorithm", "mean", "sd"}
      [] kind = "Exponential" -> {"lambda"}
      [] kind = "Poisson" -> {"lambda"}

\* the pair has n samples and the descriptor the request b asks for
IsGenerationOf(pair, b) ==
    /\ Len(pair.data) = b.number
    /\ pair.dist.kind = b.distribution
    /\ \A f \in Parameters(b.distribution) : pair.dist[f] = b.data[f]

\* C19: once a generation request has completed, the pair it stored has
\* exactly the requested number of samples and the descriptor of the
\* requested kind with the requested parameters, and as long as no later
\* generation request has taken the slot the retained pair is that pair,
\* with nothing of an earlier pair in it
C19_GenerationReplaces ==
    \A g \in Gens :
        req_pc[g] = "done" =>
            /\ IsGenerationOf(gen_result[g], req_in[g])
            /\ lock_order[Len(lock_order)] = g =>
                  IsGenerationOf([data |-> last_data, dist |-> last_dist],
                                 req_in[g])

\* a request for two Exponential samples has completed after a request of
\* another kind had stored its pair, and the slot holds its two samples
C19_Witness ==
    /\ Len(lock_order) = 2
    /\ req_pc[lock_order[1]] = "done"
    /\ req_pc[lock_order[2]] = "done"
    /\ req_in[lock_order[1]].distribution = "Normal"
    /\ gen_result[lock_order[1]].dist.pair # <<>>
    /\ req_in[lock_order[2]].distribution = "Exponential"
    /\ Len(last_data) = 2
    /\ last_dist = Exponential(FInt(1))

\* C20: a step of a statistics request or of a page request, whatever it
\* is interleaved with, leaves the retained (sample, descriptor) pair as
\* it is: every step that changes the pair is a step of a generation
\* request
C20_EvaluationsReadOnly ==
    [][(\A g \in Gens : req_pc'[g] = req_pc[g]) =>
          (last_data' = last_data /\ last_dist' = last_dist)]_vars

\* the statistics request and the page request have both run to their end
\* on a generated, non-empty sample, and the slot still holds the pair
\* they read
C20_Witness ==
    /\ req_pc["S"] = "done"
    /\ req_pc["P"] = "done"
    /\ obs["S"].data # <<>>
    /\ obs["P"] = [obs["S"] EXCEPT !.after = obs["P"].after]
    /\ pg_result = obs["P"].data
    /\ fs_response.histogram.y = <<Len(obs["S"].data)>>
    /\ last_data = obs["S"].data
    /\ last_dist = obs["S"].dist

\* the pair stored by the last generation request, in the order in which
\* the requests took the write lock, that ran to its end; the initial pair
\* when there is none
RECURSIVE LastStored(_)
LastStored(order) ==
    IF order = <<>> THEN [data |-> InitialData, dist |-> InitialDist]
    ELSE IF req_pc[order[Len(order)]] = "done"
         THEN gen_result[order[Len(order)]]
         ELSE LastStored(SubSeq(order, 1, Len(order) - 1))

\* C25: when the last generation request to take the slot has failed on
\* its distribution parameters, the retained pair is the one retained
\* before it, which is the pair of the last generation request that
\* completed or the initial pair, and what evaluation requests have read
\* is one of the pairs stored whole
C25_FailedGenerationKeepsPair ==
    (lock_order # <<>> /\ req_pc[lock_order[Len(lock_order)]] = "panicked") =>
        /\ [data |-> last_data, dist |-> last_dist] = LastStored(lock_order)
        /\ \A r \in Evals :
              obs[r].seen =>
                 [data |-> obs[r].data, dist |-> obs[r].dist]
                    \in {[data |-> InitialData, dist |-> InitialDist]}
                        \cup {gen_result[g] : g \in {h \in Gens : req_pc[h] = "done"}}

(***************************************************************************)
(* SpecLive: the server under fair scheduling.  Every handler that can     *)
(* take a step eventually takes it, and so does every spawned counting     *)
(* task.                                                                   *)
(***************************************************************************)
\* bodies of the generation requests: one Uniform sample, one Poisson
\* sample with a small and with a large lambda
LiveBodies ==
    {[seed |-> 1, number |-> 1, distribution |-> "Uniform",
      data |-> [lower |-> FInt(10), upper |-> FInt(12)]],
     [seed |-> 1, number |-> 1, distribution |-> "Poisson",
      data |-> [lambda |-> FInt(11)]],
     [seed |-> 1, number |-> 1, distribution |-> "Poisson",
      data |-> [lambda |-> FInt(1000)]]}

InitLive ==
    /\ last_data = InitialData /\ last_dist = InitialDist
    /\ rw_writer = {} /\ rw_readers = {} /\ rw_queue = <<>>
    /\ req_pc = [r \in Requests |-> "new"]
    /\ \E b1 \in LiveBodies, b2 \in LiveBodies, k \in StatBodies, p \in PageBodies :
          req_in = [r \in Requests |->
                       CASE r = "G1" -> b1 [] r = "G2" -> b2
                         [] r = "S" -> k [] r = "P" -> p]
    /\ obs = [r \in Evals |-> [seen |-> FALSE, after |-> FALSE,
                               data |-> InitialData, dist |-> InitialDist]]
    /\ written = {[data |-> InitialData, dist |-> InitialDist]}
    /\ gen_result = [g \in Gens |-> [data |-> InitialData, dist |-> InitialDist]]
    /\ lock_order = <<>>
    /\ waited = {}
    /\ threads = 4
    /\ overflow_checks = FALSE
    /\ MergeIdle
    /\ StatIdle
    /\ PageIdle
    /\ CallIdle

\* the steps of the handler of each request, which the runtime polls as
\* one task, and of the counting tasks
GenStep(g) == ReqLock(g) \/ GenClear(g) \/ GenRun(g)

StatStep ==
    ReqLock("S") \/ StatCall \/ FsStart \/ FsSpawn \/ FsAwait \/ FsFinish
        \/ StatReturn

TaskStep == \E t \in 1..Len(fs_tasks) : FsTask(t)

PageStep == ReqLock("P") \/ PageRun

\* the states in which each of them can take a step
GenEnabled(g) ==
    \/ req_pc[g] = "new"
    \/ req_pc[g] = "lock" /\ Holds(g)
    \/ /\ req_pc[g] = "cleared"
       /\ LET d == from_value(req_in[g].distribution, req_in[g].data)
          IN  ~d.ok \/ sample_loop(d.v, req_in[g].number) # {}

StatEnabled ==
    \/ req_pc["S"] = "new"
    \/ req_pc["S"] = "lock" /\ Holds("S")
    \/ fs_pc \in {"start", "spawn"}
    \/ /\ fs_pc = "await"
       /\ \/ fs_awaited = fs_ntasks
          \/ fs_awaited < fs_ntasks /\ fs_tasks[fs_awaited + 1].state # "spawned"
    \/ req_pc["S"] = "running" /\ fs_pc \in {"done", "panicked"}

TaskEnabled == \E t \in 1..Len(fs_tasks) : fs_tasks[t].state = "spawned"

PageEnabled == req_pc["P"] = "new" \/ (req_pc["P"] = "lock" /\ Holds("P"))

\* weak fairness of each of them: one that can take a step from some
\* state on does take steps again and again
Fairness ==
    /\ \A g \in Gens : []<>(~GenEnabled(g)) \/ []<><<GenStep(g)>>_vars
    /\ []<>(~StatEnabled) \/ []<><<StatStep>>_vars
    /\ []<>(~TaskEnabled) \/ []<><<TaskStep>>_vars
    /\ []<>(~PageEnabled) \/ []<><<PageStep>>_vars

SpecLive == InitLive /\ [][Next]_vars /\ Fairness

\* some handler or counting task can take a step
CanStep ==
    (\E g \in Gens : GenEnabled(g)) \/ StatEnabled \/ TaskEnabled \/ PageEnabled

\* the request has started and its handler has not returned or panicked
Pending(r) == req_pc[r] \notin {"new", "done", "panicked"}

\* the handler of the request is over and holds no access to the slot
Over(r) == req_pc[r] \in {"done", "panicked"} /\ ~Holds(r)

\* C26: under fair scheduling every request that has started is eventually
\* over with its access to the slot released, and in no state is a request
\* pending while no handler or counting task can take a step
C26_RequestsComplete ==
    /\ \A r \in Requests : Pending(r) ~> Over(r)
    /\ []((\E r \in Requests : Pending(r)) => CanStep)

====
